---- MODULE Spec2Model ----
(***************************************************************************)
(* A model of the KitOps artifact engine: the chunked blob upload of the   *)
(* registry client (pkg/lib/repo/remote/repository.go), the parent-chain   *)
(* recursion of the unpacker and its tar extraction (package unpack).      *)
(*                                                                         *)
(* Header values and file paths are sequences of one-character strings /   *)
(* path components, so that formatting, splitting, parsing and cleaning    *)
(* are computed the way the code computes them.                            *)
(***************************************************************************)
EXTENDS Integers, Sequences, FiniteSets, TLC

(***************************************************************************)
(* Bounds of the model.                                                    *)
(***************************************************************************)
\* largest blob size (expected.Size) explored
MaxSize == 3
\* largest uploadChunkSize explored
MaxUploadChunkSize == 2
\* largest MaxRetry of the retry policy explored
MaxRetryBound == 2
\* largest number of ModelKits in the chain of parent references explored
MaxRefs == 12
\* largest number of entries read from a layer's tar stream
MaxTarEntries == 2
\* largest number of filters handed to an unpack
MaxFilters == 2
\* largest number of layers of a manifest
MaxLayers == 3
\* largest number of bytes of a Kitfile
MaxKitfileLen == 2

(***************************************************************************)
(* Program constants.                                                      *)
(***************************************************************************)
StatusAccepted == 202
StatusCreated == 201
StatusRequestTimeout == 408
StatusTooManyRequests == 429
StatusBadRequest == 400
StatusNotFound == 404
StatusMethodNotAllowed == 405
\* constants.MaxModelRefChain
MaxModelRefChain == 10

VARIABLES
    \* ---- inputs of uploadBlobMonolithic and uploadBlobChunked ----
    size,            \* expected.Size
    uploadChunkSize, \* r.uploadChunkSize
    MaxRetry,        \* retryPolicy.MaxRetry
    isSeekable,      \* content.(io.Seeker) succeeded
    authHeader,      \* Authorization header of the POST ("" when none)
    uploadFormat,    \* "monolithic" or "chunked", as uploadBlob chose
    \* ---- locals of uploadBlobChunked / uploadBlobChunkWithRetry ----
    upc,             \* position: "mono", "patch", "backoff", "put", "done"
    chunk,           \* loop variable i of uploadBlobChunked
    rangeStart,
    rangeEnd,
    nextLocation,
    attempt,         \* attempt of uploadBlobChunkWithRetry
    offset,          \* read position of the content reader
    ctxDone,         \* the context has been cancelled
    \* ---- observable behaviour ----
    reqLog,          \* every request handed to client().Do, in order
    acks,            \* the 202 responses received, in order
    lastOutcome,     \* the response (or error) of the last request
    result,          \* "none", "ok", "error", "panic"
    errMsg,          \* which error was returned
    returned,        \* the string returned with a nil error
    \* ---- UnpackModelKit: the store, the call stack, the outcome ----
    kit,             \* what each reference resolves to in the store
    ustack,          \* the active calls of unpackRecursive, innermost last
    unpackLog,       \* the calls that came to their config and layers, in order
    unpackOpts,      \* opts.FilterConfs of the call of UnpackModelKit
    uresult,         \* "none", "ok", "error"
    uerr,            \* which error UnpackModelKit returned
    \* ---- extractTar: its arguments, the file system, the outcome ----
    extractDir,      \* the directory the layer is extracted to ("" for none)
    overwrite,
    ignoreExisting,
    dirs,            \* the directories that exist, as absolute paths
    files,           \* the files that exist (none of them a directory)
    written,         \* the paths extractTar created or truncated
    content,         \* for each file, the entry that wrote it last (0: none)
    entries,         \* the number of headers tr.Next has returned
    header,          \* the header tr.Next returned last, and what
                     \* filesystem.PathExists said of its outPath
    eresult,         \* "none", "ok", "error"
    eerr,            \* which error extractTar returned
    extractCtxDone,  \* the context of the unpack has been cancelled
    \* ---- ParseMediaType and MediaType.String ----
    mtInput,         \* the string handed to ParseMediaType
    mtParsed,        \* the MediaType (or the error) it returned
    mtOutput,        \* what String() of that MediaType returned
    mtpc,            \* position: "parse", "string", "done"
    \* ---- ParseFilter and shouldUnpackLayer ----
    filterStrings,   \* the filter strings of the caller
    filterEntry,     \* the Kitfile entry asked about
    parsedFilters,     \* the FilterConfs ParseFilter returned
    filterResult,    \* "none", "error", "unpack", "skip"
    filterpc,        \* position: "parse", "match", "done"
    \* ---- unpackRecursive: the Kitfile and the layers of one artifact ----
    lartifact,       \* the artifact the reference resolved to
    lfilters,        \* opts.FilterConfs
    lconfig,         \* config, the Kitfile loaded or synthesized
    lidx,            \* the layer the loop is at (0: before the loop)
    lcounts,         \* modelPartIdx, codeIdx, promptIdx, datasetIdx, docsIdx
    lfetched,        \* the layers handed to store.Fetch, with their paths
    lkitfile,        \* "absent", "written": the Kitfile in the unpack directory
    lresult,         \* "none", "ok", "error"
    lerr,            \* which error unpackRecursive returned
    \* ---- kit remove --remote ----
    rmRef,           \* opts.modelRef
    rmForce,         \* opts.forceDelete
    rmManifests,     \* the digests of the manifests the registry holds
    rmTags,          \* the digest each tag points to ("none": no such tag)
    rmDesc,          \* desc.Digest once the reference is resolved
    rmRequests,      \* the HTTP requests sent to the registry
    rmResult,        \* "none", "ok", "error"
    rmErr,           \* which error removeRemoteModel returned
    rmAnswer,        \* the status the DELETE was answered with (-1: none sent)
    \* ---- unpackConfig ----
    kfBytes,         \* configBytes, the Kitfile of the ModelKit
    kfOverwrite,     \* overwrite
    kfPath,          \* what is at <unpackDir>/Kitfile
    kfBefore,        \* what was there when unpackConfig was called
    kfResult,        \* "none", "ok", "error"
    kfErr,           \* which error unpackConfig returned
    \* ---- Repository.Push: the POST that opens the upload session ----
    pushClient,      \* r.Client
    pushOrigPort,    \* the port of the upload URL
    postLog,         \* the outcome of each round trip of the POST
    pushpc,          \* position: post, wait, done
    sessionURL,      \* the location initiateUploadSession returned
    pushResult,      \* none, ok, error
    pushErr,         \* which error initiateUploadSession returned
    \* ---- KitFile.collectLicenses ----
    licKitfile,      \* the license fields of the Kitfile
    licResult,       \* what collectLicenses returned
    licpc,           \* position: collect, done
    \* ---- Repository.Untag ----
    utRepo,          \* r.Reference of the repository Untag is called on
    utReference,     \* the reference Untag is asked to untag
    utRequests,      \* the requests Untag handed to client().Do
    utAnswer,        \* the status of the answer (0: none, -1: not asked)
    utResult,        \* "none", "ok", "error"
    utErr            \* the error returned

uploadVars == <<size, uploadChunkSize, MaxRetry, isSeekable, authHeader,
                uploadFormat, upc,
                chunk, rangeStart, rangeEnd, nextLocation, attempt, offset,
                ctxDone, reqLog, acks, lastOutcome, result, errMsg, returned>>

unpackVars == <<kit, ustack, unpackLog, unpackOpts, uresult, uerr>>

extractVars == <<extractDir, overwrite, ignoreExisting, dirs, files, written,
                 content, entries, header, eresult, eerr, extractCtxDone>>

mediaTypeVars == <<mtInput, mtParsed, mtOutput, mtpc>>

filterVars == <<filterStrings, filterEntry, parsedFilters, filterResult, filterpc>>

layersVars == <<lartifact, lfilters, lconfig, lidx, lcounts, lfetched, lkitfile, lresult, lerr>>

removeVars == <<rmRef, rmForce, rmManifests, rmTags, rmDesc, rmRequests, rmResult, rmErr,
               rmAnswer>>

configVars == <<kfBytes, kfOverwrite, kfPath, kfBefore, kfResult, kfErr>>

pushVars == <<pushClient, pushOrigPort, postLog, pushpc, sessionURL, pushResult, pushErr>>

licensesVars == <<licKitfile, licResult, licpc>>

untagVars == <<utRepo, utReference, utRequests, utAnswer, utResult, utErr>>

vars == <<uploadVars, unpackVars, extractVars, mediaTypeVars,
        filterVars, layersVars, removeVars, configVars, pushVars,
        licensesVars, untagVars>>

\* what each part of the program leaves alone
notUpload ==
    <<unpackVars, extractVars, mediaTypeVars, filterVars,
      layersVars, removeVars, configVars, pushVars, licensesVars,
      untagVars>>
notUnpack ==
    <<uploadVars, extractVars, mediaTypeVars, filterVars,
      layersVars, removeVars, configVars, pushVars, licensesVars,
      untagVars>>
notExtract ==
    <<uploadVars, unpackVars, mediaTypeVars, filterVars,
      layersVars, removeVars, configVars, pushVars, licensesVars,
      untagVars>>
notMediaType ==
    <<uploadVars, unpackVars, extractVars, filterVars,
      layersVars, removeVars, configVars, pushVars, licensesVars,
      untagVars>>
notFilter ==
    <<uploadVars, unpackVars, extractVars, mediaTypeVars,
      layersVars, removeVars, configVars, pushVars, licensesVars,
      untagVars>>
notLayers ==
    <<uploadVars, unpackVars, extractVars, mediaTypeVars,
      filterVars, removeVars, configVars, pushVars, licensesVars,
      untagVars>>
notRemove ==
    <<uploadVars, unpackVars, extractVars, mediaTypeVars,
      filterVars, layersVars, configVars, pushVars, licensesVars,
      untagVars>>
notConfig ==
    <<uploadVars, unpackVars, extractVars, mediaTypeVars,
      filterVars, layersVars, removeVars, pushVars, licensesVars,
      untagVars>>
notPush ==
    <<uploadVars, unpackVars, extractVars, mediaTypeVars,
      filterVars, layersVars, removeVars, configVars,
      licensesVars, untagVars>>
notLicenses ==
    <<uploadVars, unpackVars, extractVars, mediaTypeVars,
      filterVars, layersVars, removeVars, configVars, pushVars,
      untagVars>>
notUntag ==
    <<uploadVars, unpackVars, extractVars, mediaTypeVars,
      filterVars, layersVars, removeVars, configVars, pushVars,
      licensesVars>>

(***************************************************************************)
(* Small helpers.                                                          *)
(***************************************************************************)
Min(a, b) == IF a <= b THEN a ELSE b

Digits == <<"0", "1", "2", "3", "4", "5", "6", "7", "8", "9">>

\* fmt.Sprintf("%d", n) for n >= 0, and "-" followed by the digits otherwise
RECURSIVE FormatNat(_)
FormatNat(n) ==
    IF n < 10 THEN <<Digits[n + 1]>>
    ELSE FormatNat(n \div 10) \o <<Digits[(n % 10) + 1]>>

FormatInt(n) == IF n < 0 THEN <<"-">> \o FormatNat(-n) ELSE FormatNat(n)

\* strings.Split(s, sep) for a one-character separator: always at least one
\* field, empty fields kept
RECURSIVE SplitFrom(_, _, _, _)
SplitFrom(s, sep, i, cur) ==
    IF i > Len(s) THEN <<cur>>
    ELSE IF s[i] = sep THEN <<cur>> \o SplitFrom(s, sep, i + 1, <<>>)
    ELSE SplitFrom(s, sep, i + 1, Append(cur, s[i]))

Split(s, sep) == SplitFrom(s, sep, 1, <<>>)

DigitValue(c) == CHOOSE d \in 0..9 : Digits[d + 1] = c

IsDigit(c) == \E d \in 0..9 : Digits[d + 1] = c

RECURSIVE DigitsValue(_, _)
DigitsValue(s, acc) ==
    IF s = <<>> THEN acc
    ELSE DigitsValue(Tail(s), acc * 10 + DigitValue(Head(s)))

\* strconv.ParseInt(s, 10, 0): an optional sign, then one or more decimal
\* digits; anything else is an error
ParseInt(s) ==
    LET signed == s # <<>> /\ Head(s) \in {"+", "-"}
        body == IF signed THEN Tail(s) ELSE s
    IN IF body = <<>> \/ \E i \in 1..Len(body) : ~IsDigit(body[i])
       THEN [ok |-> FALSE, val |-> 0]
       ELSE [ok |-> TRUE,
             val |-> IF signed /\ Head(s) = "-"
                     THEN 0 - DigitsValue(body, 0)
                     ELSE DigitsValue(body, 0)]


(***************************************************************************)
(* Chunked blob upload: uploadBlobChunked and uploadBlobChunkWithRetry.    *)
(***************************************************************************)
StartLocation == "/one"

\* the Location values a registry may answer with
Locations == {"/a", "/b"}

\* resp.Location() fails: the response has no Location header
NoLocation == ""

ExpectedDigest == "sha256:d"

OctetStream == "application/octet-stream"

\* the statuses a registry may answer with
Statuses == {200, StatusCreated, StatusAccepted, 404,
             StatusRequestTimeout, StatusTooManyRequests, 500, 503}

\* respErr: no error, a net.Error whose Timeout() is true, any other error
ErrKinds == {"none", "timeout", "other"}

\* numChunks := int(math.Ceil(float64(expected.Size) / float64(r.uploadChunkSize)))
NumChunks(sz, c) == (sz + c - 1) \div c

\* rangeEnd := min(r.uploadChunkSize-1, expected.Size-1)
FirstRangeEnd(sz, c) == Min(c - 1, sz - 1)

\* rangeStart = rangeEnd + 1
NextRangeStart(re) == re + 1

\* a slip: the end of the next range is not clamped to the blob size
NextRangeEnd_NoClamp(sz, c, re) == re + c

\* rangeEnd = min(expected.Size-1, rangeEnd+r.uploadChunkSize)
NextRangeEnd(sz, c, re) == Min(sz - 1, re + c)

\* req.ContentLength = rangeEnd - rangeStart + 1
BodyLength(rs, re) == re - rs + 1

\* fmt.Sprintf("%d-%d", rangeStart, rangeEnd)
ContentRange(rs, re) == FormatInt(rs) \o <<"-">> \o FormatInt(re)

\* a slip: the Authorization header is set on the first attempt only
PatchRequest_AuthOnFirstAttempt(loc, rs, re, auth, off, sz, i, att) ==
    [method |-> "PATCH", url |-> loc, query |-> "",
     contentRange |-> ContentRange(rs, re),
     contentLength |-> BodyLength(rs, re),
     contentType |-> OctetStream,
     auth |-> IF att = 0 THEN auth ELSE "",
     bodyFrom |-> off,
     bodyLen |-> Min(BodyLength(rs, re), sz - off),
     chunk |-> i, attempt |-> att]

\* the chunk PATCH built by uploadBlobChunked; its body is the LimitReader
\* set up by uploadBlobChunkWithRetry over the content reader as it stands
PatchRequest(loc, rs, re, auth, off, sz, i, att) ==
    [method |-> "PATCH", url |-> loc, query |-> "",
     contentRange |-> ContentRange(rs, re),
     contentLength |-> BodyLength(rs, re),
     contentType |-> OctetStream,
     auth |-> auth,
     bodyFrom |-> off,
     bodyLen |-> Min(BodyLength(rs, re), sz - off),
     chunk |-> i, attempt |-> att]

\* the finalize PUT built by uploadBlobChunked: no body, digest in the query
PutRequest(loc, auth, off, i) ==
    [method |-> "PUT", url |-> loc, query |-> ExpectedDigest,
     contentRange |-> <<>>,
     contentLength |-> 0,
     contentType |-> "",
     auth |-> auth,
     bodyFrom |-> off,
     bodyLen |-> 0,
     chunk |-> i, attempt |-> 0]

\* the PUT built by uploadBlobMonolithic: the whole content as its body
MonolithicPutRequest(loc, auth, off, sz) ==
    [method |-> "PUT", url |-> loc, query |-> ExpectedDigest,
     contentRange |-> <<>>,
     contentLength |-> sz,
     contentType |-> OctetStream,
     auth |-> auth,
     bodyFrom |-> off,
     bodyLen |-> sz - off,
     chunk |-> 0, attempt |-> 0]

\* a slip: the end of the Range header is parsed but not compared
RangeVerdict_NoEndCheck(respRange, re) ==
    IF respRange = <<>> THEN "missing Range"
    ELSE LET startEnd == Split(respRange, "-") IN
         IF Len(startEnd) # 2 \/ startEnd[1] # <<"0">> THEN "invalid Range"
         ELSE IF ~ParseInt(startEnd[2]).ok THEN "invalid Range"
         ELSE "ok"

\* the verification of the Range header of a 202 response
RangeVerdict(respRange, re) ==
    IF respRange = <<>> THEN "missing Range"
    ELSE LET startEnd == Split(respRange, "-") IN
         IF Len(startEnd) # 2 \/ startEnd[1] # <<"0">> THEN "invalid Range"
         ELSE LET curEnd == ParseInt(startEnd[2]) IN
              IF ~curEnd.ok THEN "invalid Range"
              ELSE IF curEnd.val # re THEN "range mismatch"
              ELSE "ok"

\* retry.DefaultPredicate, the Retryable of the policy: (retry?, error)
Retryable(o) ==
    IF o.err # "none"
    THEN IF o.err = "timeout" THEN "yes" ELSE "error"
    ELSE IF o.status = StatusRequestTimeout \/ o.status = StatusTooManyRequests
         THEN "yes"
         ELSE IF o.status = 0 \/ o.status >= 500 THEN "yes" ELSE "no"

\* retryPolicy.Retry(attempt, resp, respErr) of a retry.GenericPolicy:
\* "error" (err != nil), "stop" (delay < 0) or "delay" (wait, then retry)
RetryPolicyRetry(att, maxRetry, o) ==
    IF att >= maxRetry THEN "stop"
    ELSE IF Retryable(o) = "error" THEN "error"
    ELSE IF Retryable(o) = "no" THEN "stop"
    ELSE "delay"

\* a slip: the reader is left where the failed attempt stopped reading
SeekTarget_NoSeek(rs, off) == off

\* seekableContent.Seek(rangeStart, io.SeekStart)
SeekTarget(rs, off) == rs

\* a slip: the Location of the response is ignored
NextLocationAfter_Stale(cur, o) == cur

\* nextLocation = respLocation
NextLocationAfter(cur, o) == o.location

\* a slip: the loop stops one chunk short
LoopDone_OneShort(i, sz, c) == i >= NumChunks(sz, c) - 1

\* the for loop of uploadBlobChunked has run all its iterations
LoopDone(i, sz, c) == i >= NumChunks(sz, c)

\* the Range headers a registry may answer a chunk ending at re with
RangeHeaders(re) ==
    { <<>>,
      <<"0", "-">> \o FormatInt(re),
      <<"0", "-", "0">> \o FormatInt(re),
      <<"0", "-", "+">> \o FormatInt(re),
      <<"0", "-">> \o FormatInt(re + 1),
      <<"0", "-">> \o FormatInt(re - 1),
      <<"1", "-">> \o FormatInt(re),
      FormatInt(re),
      <<"0", "-">> \o FormatInt(re) \o <<"-", "0">>,
      <<"0", "-", "x">>,
      <<"b", "=", "0", "-">> \o FormatInt(re) }

Outcome(e, st, loc, rng) == [err |-> e, status |-> st, location |-> loc, range |-> rng]

NoOutcome == Outcome("none", 0, NoLocation, <<>>)

\* what client().Do may come back with for a chunk PATCH
PatchOutcomes(re) ==
    { Outcome(e, 0, NoLocation, <<>>) : e \in ErrKinds \ {"none"} }
    \cup { Outcome("none", st, NoLocation, <<>>) : st \in Statuses \ {StatusAccepted} }
    \cup { Outcome("none", StatusAccepted, loc, rng) :
             loc \in Locations, rng \in RangeHeaders(re) }
    \cup { Outcome("none", StatusAccepted, NoLocation, ContentRange(0, re)) }

\* what client().Do may come back with for the finalize PUT
PutOutcomes ==
    { Outcome(e, 0, NoLocation, <<>>) : e \in ErrKinds \ {"none"} }
    \cup { Outcome("none", st, NoLocation, <<>>) : st \in Statuses \ {StatusCreated} }
    \cup { Outcome("none", StatusCreated, loc, <<>>) : loc \in Locations \cup {NoLocation} }


(***************************************************************************)
(* The state uploadBlob is in when it calls uploadBlobMonolithic or        *)
(* uploadBlobChunked.                                                      *)
(***************************************************************************)
InitUpload ==
    /\ size \in 0..MaxSize
    /\ uploadChunkSize \in 1..MaxUploadChunkSize
    /\ MaxRetry \in 0..MaxRetryBound
    /\ isSeekable \in BOOLEAN
    /\ authHeader \in {"", "Bearer t"}
    /\ uploadFormat \in {"monolithic", "chunked"}
    /\ chunk = 0
    /\ rangeStart = 0
    /\ rangeEnd = FirstRangeEnd(size, uploadChunkSize)
    /\ nextLocation = StartLocation
    /\ upc = IF uploadFormat = "monolithic" THEN "mono"
             ELSE IF LoopDone(0, size, uploadChunkSize) THEN "put" ELSE "patch"
    /\ attempt = 0
    /\ offset = 0
    /\ ctxDone = FALSE
    /\ reqLog = <<>>
    /\ acks = <<>>
    /\ lastOutcome = NoOutcome
    /\ result = "none"
    /\ errMsg = ""
    /\ returned = ""

\* uploadBlobChunked returns ("", err)
UploadFails(msg) ==
    /\ upc' = "done"
    /\ result' = "error"
    /\ errMsg' = msg
    /\ returned' = ""

\* a nil pointer is dereferenced: the goroutine panics
UploadPanics(msg) ==
    /\ upc' = "done"
    /\ result' = "panic"
    /\ errMsg' = msg
    /\ returned' = ""

\* uploadBlobChunkWithRetry returned (resp, respErr) without a 202: lines
\* 232-238 of uploadBlobChunked
ChunkReturned(o) ==
    IF o.err # "none"
    THEN UploadFails("failed to upload blob chunk")
    ELSE UploadFails("remote error")

\* a slip: the attempt counter is shared by all chunks
ChunkAccepted_KeepsAttempt(o) ==
    IF o.location = NoLocation
    THEN /\ UploadFails("missing Location")
         /\ UNCHANGED <<nextLocation, chunk, rangeStart, rangeEnd, attempt, acks>>
    ELSE /\ nextLocation' = NextLocationAfter(nextLocation, o)
         /\ IF RangeVerdict(o.range, rangeEnd) # "ok"
            THEN /\ UploadFails(RangeVerdict(o.range, rangeEnd))
                 /\ UNCHANGED <<chunk, rangeStart, rangeEnd, attempt, acks>>
            ELSE /\ acks' = Append(acks, [chunk |-> chunk, sentEnd |-> rangeEnd,
                                          curEnd |-> ParseInt(Split(o.range, "-")[2]).val,
                                          location |-> o.location])
                 /\ chunk' = chunk + 1
                 /\ rangeStart' = NextRangeStart(rangeEnd)
                 /\ rangeEnd' = NextRangeEnd(size, uploadChunkSize, rangeEnd)
                 /\ attempt' = attempt
                 /\ upc' = IF LoopDone(chunk + 1, size, uploadChunkSize)
                           THEN "put" ELSE "patch"
                 /\ UNCHANGED <<result, errMsg, returned>>

\* uploadBlobChunkWithRetry returned a 202 response: lines 239-268 of
\* uploadBlobChunked, up to the head of the next iteration
ChunkAccepted(o) ==
    IF o.location = NoLocation
    THEN /\ UploadFails("missing Location")
         /\ UNCHANGED <<nextLocation, chunk, rangeStart, rangeEnd, attempt, acks>>
    ELSE /\ nextLocation' = NextLocationAfter(nextLocation, o)
         /\ IF RangeVerdict(o.range, rangeEnd) # "ok"
            THEN /\ UploadFails(RangeVerdict(o.range, rangeEnd))
                 /\ UNCHANGED <<chunk, rangeStart, rangeEnd, attempt, acks>>
            ELSE /\ acks' = Append(acks, [chunk |-> chunk, sentEnd |-> rangeEnd,
                                          curEnd |-> ParseInt(Split(o.range, "-")[2]).val,
                                          location |-> o.location])
                 /\ chunk' = chunk + 1
                 /\ rangeStart' = NextRangeStart(rangeEnd)
                 /\ rangeEnd' = NextRangeEnd(size, uploadChunkSize, rangeEnd)
                 /\ attempt' = 0
                 /\ upc' = IF LoopDone(chunk + 1, size, uploadChunkSize)
                           THEN "put" ELSE "patch"
                 /\ UNCHANGED <<result, errMsg, returned>>

\* a slip: the body is not asked whether it can seek
UploadChunkAttempt_RetriesUnseekable ==
    /\ upc = "patch"
    /\ \E o \in PatchOutcomes(rangeEnd), seekOk \in BOOLEAN :
       LET req == PatchRequest(nextLocation, rangeStart, rangeEnd, authHeader,
                               offset, size, chunk, attempt)
       IN \E consumed \in {0, req.bodyLen} :
          \* a registry answers 202 once it has read the whole body
          /\ (o.err = "none" /\ o.status = StatusAccepted) => consumed = req.bodyLen
          /\ reqLog' = Append(reqLog, req)
          /\ lastOutcome' = o
          /\ IF o.err = "none" /\ o.status = StatusAccepted
             THEN /\ offset' = offset + consumed
                  /\ ChunkAccepted(o)
             ELSE LET d == RetryPolicyRetry(attempt, MaxRetry, o) IN
                  IF d = "error"
                  THEN /\ offset' = offset + consumed
                       /\ ChunkReturned(o)
                       /\ UNCHANGED <<nextLocation, chunk, rangeStart, rangeEnd, attempt, acks>>
                  ELSE IF d = "stop"
                  THEN /\ offset' = offset + consumed
                       \* resp.StatusCode is read with resp == nil when respErr != nil
                       /\ IF o.err # "none"
                          THEN UploadPanics("nil response dereferenced")
                          ELSE ChunkReturned(o)
                       /\ UNCHANGED <<nextLocation, chunk, rangeStart, rangeEnd, attempt, acks>>
                  ELSE IF ~seekOk
                  THEN /\ offset' = offset + consumed
                       /\ ChunkReturned(o)
                       /\ UNCHANGED <<nextLocation, chunk, rangeStart, rangeEnd, attempt, acks>>
                  ELSE /\ offset' = SeekTarget(rangeStart, offset + consumed)
                       /\ upc' = "backoff"
                       /\ UNCHANGED <<nextLocation, chunk, rangeStart, rangeEnd, attempt,
                                      acks, result, errMsg, returned>>
    /\ UNCHANGED <<size, uploadChunkSize, MaxRetry, isSeekable, authHeader,
                   uploadFormat, ctxDone>>

\* One pass of the loop of uploadBlobChunkWithRetry: the PATCH is handed to
\* client().Do, which reads `consumed` bytes of the body and answers o; the
\* code then returns to uploadBlobChunked or seeks and starts to wait.
UploadChunkAttempt ==
    /\ upc = "patch"
    /\ \E o \in PatchOutcomes(rangeEnd), seekOk \in BOOLEAN :
       LET req == PatchRequest(nextLocation, rangeStart, rangeEnd, authHeader,
                               offset, size, chunk, attempt)
       IN \E consumed \in {0, req.bodyLen} :
          \* a registry answers 202 once it has read the whole body
          /\ (o.err = "none" /\ o.status = StatusAccepted) => consumed = req.bodyLen
          /\ reqLog' = Append(reqLog, req)
          /\ lastOutcome' = o
          /\ IF o.err = "none" /\ o.status = StatusAccepted
             THEN /\ offset' = offset + consumed
                  /\ ChunkAccepted(o)
             ELSE IF ~isSeekable
             THEN /\ offset' = offset + consumed
                  /\ ChunkReturned(o)
                  /\ UNCHANGED <<nextLocation, chunk, rangeStart, rangeEnd, attempt, acks>>
             ELSE LET d == RetryPolicyRetry(attempt, MaxRetry, o) IN
                  IF d = "error"
                  THEN /\ offset' = offset + consumed
                       /\ ChunkReturned(o)
                       /\ UNCHANGED <<nextLocation, chunk, rangeStart, rangeEnd, attempt, acks>>
                  ELSE IF d = "stop"
                  THEN /\ offset' = offset + consumed
                       \* resp.StatusCode is read with resp == nil when respErr != nil
                       /\ IF o.err # "none"
                          THEN UploadPanics("nil response dereferenced")
                          ELSE ChunkReturned(o)
                       /\ UNCHANGED <<nextLocation, chunk, rangeStart, rangeEnd, attempt, acks>>
                  ELSE IF ~seekOk
                  THEN /\ offset' = offset + consumed
                       /\ ChunkReturned(o)
                       /\ UNCHANGED <<nextLocation, chunk, rangeStart, rangeEnd, attempt, acks>>
                  ELSE /\ offset' = SeekTarget(rangeStart, offset + consumed)
                       /\ upc' = "backoff"
                       /\ UNCHANGED <<nextLocation, chunk, rangeStart, rangeEnd, attempt,
                                      acks, result, errMsg, returned>>
    /\ UNCHANGED <<size, uploadChunkSize, MaxRetry, isSeekable, authHeader,
                   uploadFormat, ctxDone>>

\* The select of uploadBlobChunkWithRetry, case <-timer.C: the wait is over,
\* attempt++ and the loop starts its next pass with a fresh resp, respErr.
UploadBackoffTimer ==
    /\ upc = "backoff"
    /\ ~ctxDone
    /\ attempt' = attempt + 1
    /\ upc' = "patch"
    /\ lastOutcome' = NoOutcome
    /\ UNCHANGED <<size, uploadChunkSize, MaxRetry, isSeekable, authHeader,
                   uploadFormat, chunk,
                   rangeStart, rangeEnd, nextLocation, offset, ctxDone, reqLog,
                   acks, result, errMsg, returned>>

\* a slip: the select has no case for ctx.Done(), the wait runs its course
UploadBackoffCancelled_KeepsWaiting ==
    /\ upc = "backoff"
    /\ ctxDone' = TRUE
    /\ attempt' = attempt + 1
    /\ upc' = "patch"
    /\ UNCHANGED <<size, uploadChunkSize, MaxRetry, isSeekable, authHeader,
                   uploadFormat, chunk,
                   rangeStart, rangeEnd, nextLocation, offset, reqLog,
                   acks, lastOutcome, result, errMsg, returned>>

\* The select of uploadBlobChunkWithRetry, case <-ctx.Done(): the context is
\* cancelled during the wait and (nil, ctx.Err()) is returned, which
\* uploadBlobChunked wraps with %w.
UploadBackoffCancelled ==
    /\ upc = "backoff"
    /\ ctxDone' = TRUE
    /\ UploadFails("failed to upload blob chunk: context canceled")
    /\ UNCHANGED <<size, uploadChunkSize, MaxRetry, isSeekable, authHeader,
                   uploadFormat, chunk,
                   rangeStart, rangeEnd, nextLocation, attempt, offset, reqLog,
                   acks, lastOutcome>>

\* The finalize PUT of uploadBlobChunked and the handling of its response.
UploadFinalize ==
    /\ upc = "put"
    /\ \E o \in PutOutcomes :
          /\ reqLog' = Append(reqLog, PutRequest(nextLocation, authHeader, offset, chunk))
          /\ lastOutcome' = o
          /\ IF o.err # "none"
             THEN UploadFails("failed to finalize blob upload")
             ELSE IF o.status # StatusCreated
             THEN UploadFails("remote error")
             \* blobLocation.String() is called on the nil *url.URL that
             \* resp.Location() returns with its error
             ELSE IF o.location = NoLocation
             THEN UploadPanics("nil blob location dereferenced")
             ELSE /\ upc' = "done"
                  /\ result' = "ok"
                  /\ errMsg' = ""
                  /\ returned' = o.location
    /\ UNCHANGED <<size, uploadChunkSize, MaxRetry, isSeekable, authHeader,
                   uploadFormat, chunk,
                   rangeStart, rangeEnd, nextLocation, attempt, offset, ctxDone, acks>>

\* uploadBlobMonolithic; sized: the reader is of a built-in type whose
\* length http.NewRequestWithContext reads, and that length is not
\* expected.Size
UploadMonolithic ==
    /\ upc = "mono"
    /\ \E sized \in BOOLEAN, o \in PutOutcomes :
          IF sized
          THEN /\ UploadFails("mismatch content length")
               /\ UNCHANGED <<reqLog, lastOutcome>>
          ELSE /\ reqLog' = Append(reqLog,
                     MonolithicPutRequest(nextLocation, authHeader, offset, size))
               /\ lastOutcome' = o
               /\ IF o.err # "none"
                  THEN UploadFails("failed to upload blob")
                  ELSE IF o.status # StatusCreated
                  THEN UploadFails("remote error")
                  ELSE IF o.location = NoLocation
                  THEN UploadPanics("nil blob location dereferenced")
                  ELSE /\ upc' = "done"
                       /\ result' = "ok"
                       /\ errMsg' = ""
                       /\ returned' = o.location
    /\ UNCHANGED <<size, uploadChunkSize, MaxRetry, isSeekable, authHeader,
                   uploadFormat, chunk, rangeStart, rangeEnd, nextLocation,
                   attempt, offset, ctxDone, acks>>

NextUpload ==
    \/ UploadMonolithic /\ UNCHANGED notUpload
    \/ UploadChunkAttempt /\ UNCHANGED notUpload
    \/ UploadBackoffTimer /\ UNCHANGED notUpload
    \/ UploadBackoffCancelled /\ UNCHANGED notUpload
    \/ UploadFinalize /\ UNCHANGED notUpload

\* no upload is running
IdleUpload ==
    /\ size = 0 /\ uploadChunkSize = 1 /\ MaxRetry = 0
    /\ isSeekable = FALSE /\ authHeader = "" /\ uploadFormat = "chunked"
    /\ upc = "done" /\ chunk = 0 /\ rangeStart = 0 /\ rangeEnd = 0
    /\ nextLocation = NoLocation /\ attempt = 0 /\ offset = 0
    /\ ctxDone = FALSE /\ reqLog = <<>> /\ acks = <<>>
    /\ lastOutcome = NoOutcome /\ result = "none" /\ errMsg = ""
    /\ returned = ""


(***************************************************************************)
(* Properties of the chunked upload.                                       *)
(***************************************************************************)
PatchIdx == {j \in 1..Len(reqLog) : reqLog[j].method = "PATCH"}

PutIdx == {j \in 1..Len(reqLog) : reqLog[j].method = "PUT"}

\* the Content-Range header of a request, read back as a pair of integers
ParsedRange(req) ==
    LET f == Split(req.contentRange, "-") IN
    IF Len(f) = 2 /\ ParseInt(f[1]).ok /\ ParseInt(f[2]).ok
    THEN [ok |-> TRUE, start |-> ParseInt(f[1]).val, end |-> ParseInt(f[2]).val]
    ELSE [ok |-> FALSE, start |-> 0, end |-> 0]

\* ceil(sz / c), stated without the code's arithmetic
CeilDiv(sz, c) == CHOOSE n \in 0..sz : n * c >= sz /\ (n = 0 \/ (n - 1) * c < sz)

\* the last request was a chunk PATCH and lastOutcome is its outcome
LastIsPatch ==
    /\ reqLog # <<>>
    /\ reqLog[Len(reqLog)].method = "PATCH"
    /\ lastOutcome # NoOutcome

\* a transient failure: 408, 429, 5xx or a network timeout
TransientFailure(o) ==
    \/ o.err = "timeout"
    \/ /\ o.err = "none"
       /\ o.status \in {StatusRequestTimeout, StatusTooManyRequests} \cup 500..599

\* C1: a chunked upload reports success only if each of the
\* ceil(size/uploadChunkSize) chunks was answered 202 with a Range whose end
\* is the end of the chunk sent, and a body-less PUT carrying the digest was
\* then answered 201; the PUT is never in the log before the last chunk has
\* been acknowledged.
C1_SuccessNeedsAllChunksThenPut ==
  uploadFormat = "chunked" =>
    /\ result = "ok" =>
         /\ Len(acks) = CeilDiv(size, uploadChunkSize)
         /\ \A i \in 1..Len(acks) :
              /\ acks[i].chunk = i - 1
              /\ acks[i].curEnd = acks[i].sentEnd
              /\ acks[i].sentEnd = Min(i * uploadChunkSize, size) - 1
         /\ reqLog # <<>>
         /\ LET put == reqLog[Len(reqLog)] IN
              /\ put.method = "PUT"
              /\ put.contentLength = 0 /\ put.bodyLen = 0
              /\ put.query = ExpectedDigest
         /\ lastOutcome.err = "none" /\ lastOutcome.status = StatusCreated
    /\ \A j \in PutIdx :
         /\ j = Len(reqLog)
         /\ Len(acks) = CeilDiv(size, uploadChunkSize)
         /\ \A k \in 1..(j - 1) : reqLog[k].method = "PATCH"

C1_Witness ==
    /\ result = "ok"
    /\ Len(acks) >= 2
    /\ size % uploadChunkSize # 0

\* C2: the PATCHes of a blob go out one after the other in increasing byte
\* order; the first to the session location, each later one to the Location
\* of the 202 before it, the PUT to the Location of the last 202, and the
\* value returned is the Location of the 201.
C2_SequentialAndChained ==
    /\ \A j \in PatchIdx :
         /\ reqLog[j].chunk <= Len(acks)
         /\ reqLog[j].url = IF reqLog[j].chunk = 0 THEN StartLocation
                            ELSE acks[reqLog[j].chunk].location
         /\ j > 1 =>
              \/ /\ reqLog[j].chunk = reqLog[j - 1].chunk
                 /\ ParsedRange(reqLog[j]).start = ParsedRange(reqLog[j - 1]).start
              \/ /\ reqLog[j].chunk = reqLog[j - 1].chunk + 1
                 /\ ParsedRange(reqLog[j]).start > ParsedRange(reqLog[j - 1]).end
    /\ \A j \in PutIdx :
         reqLog[j].url = IF acks = <<>> THEN StartLocation
                         ELSE acks[Len(acks)].location
    /\ result = "ok" =>
         /\ lastOutcome.status = StatusCreated
         /\ returned = lastOutcome.location

C2_Witness ==
    /\ result = "ok"
    /\ Len(acks) >= 2
    /\ acks[1].location # acks[2].location
    /\ returned # acks[Len(acks)].location
    /\ \E j \in PatchIdx : reqLog[j].attempt > 0

\* C3: in a chunked upload of size >= 1 the Content-Range of the PATCH of
\* chunk i is [i*c, min((i+1)*c, size) - 1]: inclusive, contiguous, at most c bytes,
\* ending at size-1 for the last chunk, with Content-Length = end-start+1
\* and Content-Type application/octet-stream.
C3_ContentRanges ==
    (uploadFormat = "chunked" /\ size >= 1) =>
      /\ \A j \in PatchIdx :
           LET r == ParsedRange(reqLog[j])
               i == reqLog[j].chunk
           IN /\ r.ok
              /\ r.start = i * uploadChunkSize
              /\ r.end = Min((i + 1) * uploadChunkSize, size) - 1
              /\ r.start <= r.end
              /\ r.end - r.start + 1 <= uploadChunkSize
              /\ r.end <= size - 1
              /\ reqLog[j].contentLength = r.end - r.start + 1
              /\ reqLog[j].contentType = OctetStream
      /\ PutIdx # {} =>
           /\ PatchIdx # {}
           /\ \E j \in PatchIdx : ParsedRange(reqLog[j]).end = size - 1
           /\ \A b \in 0..(size - 1) :
                \E j \in PatchIdx :
                   /\ ParsedRange(reqLog[j]).start <= b
                   /\ b <= ParsedRange(reqLog[j]).end

C3_Witness ==
    /\ PutIdx # {}
    /\ size % uploadChunkSize = 0
    /\ Len(acks) >= 2


LastReq == reqLog[Len(reqLog)]

\* the requests sent for chunk i
AttemptsOf(i) == {j \in PatchIdx : reqLog[j].chunk = i}

\* C4: with a seekable body and a policy of MaxRetry = N retries, a 202
\* that comes after at most N transient failures makes the chunk PATCH
\* succeed; after N+1 transient failures the upload has failed, the chunk
\* has been attempted exactly N+1 times and nothing more is sent.
C4_RetryBudget ==
    (isSeekable /\ LastIsPatch) =>
      /\ LastReq.attempt <= MaxRetry
      /\ (lastOutcome.err = "none" /\ lastOutcome.status = StatusAccepted) =>
           /\ result # "panic"
           /\ errMsg \notin {"failed to upload blob chunk", "remote error"}
      /\ (TransientFailure(lastOutcome) /\ LastReq.attempt = MaxRetry) =>
           /\ upc = "done"
           /\ result = "error"
           /\ Cardinality(AttemptsOf(LastReq.chunk)) = MaxRetry + 1
           /\ PutIdx = {}

\* C5: a retry re-sends the PATCH to the same location with the same
\* Content-Range once the reader is back at rangeStart; every attempt is
\* issued with the reader at rangeStart and carries bytes rangeStart..rangeEnd.
C5_RetryResendsSameBytes ==
    /\ \A j \in PatchIdx :
         LET r == ParsedRange(reqLog[j]) IN
         /\ r.ok
         /\ reqLog[j].bodyFrom = r.start
         /\ reqLog[j].bodyLen = r.end - r.start + 1
         /\ reqLog[j].attempt > 0 =>
              /\ j > 1
              /\ reqLog[j - 1].method = "PATCH"
              /\ reqLog[j - 1].chunk = reqLog[j].chunk
              /\ reqLog[j - 1].attempt = reqLog[j].attempt - 1
              /\ reqLog[j - 1].url = reqLog[j].url
              /\ reqLog[j - 1].contentRange = reqLog[j].contentRange
    /\ upc = "backoff" => offset = rangeStart

C5_Witness ==
    /\ LastIsPatch
    /\ LastReq.attempt >= 2
    /\ LastReq.chunk >= 1
    /\ lastOutcome.status = StatusAccepted

\* C6: a chunk PATCH is retried only after 408, 429, 5xx or a network
\* timeout; after any other outcome that is not a 202 the upload has failed
\* with no retry and no finalize PUT.
C6_RetryOnlyTransient ==
    /\ upc = "backoff" => TransientFailure(lastOutcome)
    /\ ( /\ LastIsPatch
         /\ ~TransientFailure(lastOutcome)
         /\ ~(lastOutcome.err = "none" /\ lastOutcome.status = StatusAccepted) ) =>
           /\ upc = "done"
           /\ result = "error"
           /\ PutIdx = {}
           /\ LastReq.attempt = 0 => Cardinality(AttemptsOf(LastReq.chunk)) = 1

\* a Range header the upload goes on with: "0-", an optional "+", then
\* decimal digits whose value is the end of the chunk just sent
AcceptableRange(h, e) ==
    /\ Len(h) >= 3
    /\ h[1] = "0"
    /\ h[2] = "-"
    /\ LET rest == SubSeq(h, 3, Len(h))
           digs == IF rest[1] = "+" THEN Tail(rest) ELSE rest
       IN /\ digs # <<>>
          /\ \A i \in 1..Len(digs) : IsDigit(digs[i])
          /\ DigitsValue(digs, 0) = e

\* C7: a 202 whose Range header is missing, malformed, does not start at 0
\* or ends elsewhere than the chunk just sent ends the upload with an
\* error: no retry, no later chunk, no finalize PUT.
C7_BadRangeIsTerminal ==
    ( /\ LastIsPatch
      /\ lastOutcome.err = "none"
      /\ lastOutcome.status = StatusAccepted
      /\ ~AcceptableRange(lastOutcome.range, ParsedRange(LastReq).end) ) =>
        /\ upc = "done"
        /\ result = "error"
        /\ errMsg \in {"missing Range", "invalid Range", "range mismatch"}
        /\ PutIdx = {}
        /\ Len(acks) = LastReq.chunk

C7_Witness ==
    /\ LastIsPatch
    /\ lastOutcome.status = StatusAccepted
    /\ lastOutcome.range = <<"0", "-">> \o FormatInt(ParsedRange(LastReq).end + 1)
    /\ LastReq.chunk >= 1
    /\ result = "error"
    /\ errMsg = "range mismatch"

\* C23: every chunk PATCH (first attempts and retries), the finalize PUT
\* and the monolithic PUT of an upload carry the Authorization value of the
\* POST that opened the session; when that value was empty ("") none of
\* them has an Authorization header set.
C23_AuthorizationPropagated ==
    \A k \in 1..Len(reqLog) :
        /\ reqLog[k].method \in {"PATCH", "PUT"}
        /\ reqLog[k].auth = authHeader

C23_Witness ==
    /\ authHeader = "Bearer t"
    /\ result = "ok"
    /\ \E k \in 1..Len(reqLog) : reqLog[k].method = "PATCH" /\ reqLog[k].attempt >= 1
    /\ \E k \in 1..Len(reqLog) : reqLog[k].method = "PUT"

\* C24: when the context is cancelled during the back-off wait before a
\* chunk retry, the wait ends at once, the upload returns the context's
\* cancellation error, and from then on no PATCH and no PUT is sent.
C24_CancelledBackoffStops ==
    [][ /\ (upc = "backoff" /\ ~ctxDone /\ ctxDone') =>
             /\ upc' = "done"
             /\ result' = "error"
             /\ errMsg' = "failed to upload blob chunk: context canceled"
             /\ returned' = ""
             /\ reqLog' = reqLog
        /\ ctxDone => reqLog' = reqLog ]_vars

C24_Witness ==
    /\ ctxDone
    /\ upc = "done"
    /\ errMsg = "failed to upload blob chunk: context canceled"
    /\ Len(reqLog) >= 2
    /\ LastReq.method = "PATCH"
    /\ LastReq.attempt >= 1

\* C32: with a content reader that cannot seek, every chunk PATCH is
\* attempted once: a response other than 202 or a transport error,
\* retryable or not, ends the upload with an error, with no retry, no
\* back-off wait and no finalize PUT.
C32_UnseekableNeverRetries ==
    (uploadFormat = "chunked" /\ ~isSeekable) =>
       /\ upc # "backoff"
       /\ \A k \in PatchIdx :
             /\ reqLog[k].attempt = 0
             /\ Cardinality(AttemptsOf(reqLog[k].chunk)) = 1
       /\ ( /\ LastIsPatch
            /\ ~(lastOutcome.err = "none" /\ lastOutcome.status = StatusAccepted) ) =>
               /\ upc = "done"
               /\ result = "error"
               /\ errMsg \in {"failed to upload blob chunk", "remote error"}
               /\ PutIdx = {}

\* the second chunk of an unseekable body was answered 503: two requests,
\* an error
C32_Witness ==
    /\ uploadFormat = "chunked" /\ ~isSeekable
    /\ MaxRetry >= 1
    /\ Len(reqLog) = 2
    /\ LastIsPatch
    /\ LastReq.chunk = 1
    /\ lastOutcome.err = "none" /\ lastOutcome.status = 503
    /\ result = "error" /\ errMsg = "remote error"

\* C33: when the attempts of a chunk PATCH on a seekable body have used up
\* the retry budget and the last of them failed with a network timeout (no
\* response), the upload returns an error wrapping the transport failure:
\* the missing response is not dereferenced, and nothing more is sent.
C33_TimeoutsReturnError ==
    ( /\ uploadFormat = "chunked" /\ isSeekable
      /\ LastIsPatch
      /\ lastOutcome.err = "timeout"
      /\ LastReq.attempt = MaxRetry ) =>
         /\ upc = "done"
         /\ result = "error"
         /\ errMsg = "failed to upload blob chunk"

\* the requests and waits the upload may still make: at most one per
\* attempt and one per wait of each chunk left, and the closing PUT
UploadStepsLeft ==
    LET perChunk == 2 * (MaxRetry + 1)
        chunksAfter == CeilDiv(size, uploadChunkSize) - chunk - 1
        here == 2 * (MaxRetry - attempt)
    IN  CASE upc = "done" -> 0
          [] upc \in {"put", "mono"} -> 1
          [] upc = "patch" -> 1 + chunksAfter * perChunk + here + 2
          [] upc = "backoff" -> 1 + chunksAfter * perChunk + here + 1

\* C34: the upload always comes to an end: every step it takes leaves
\* fewer steps to take, none being left when it has returned.  On the way
\* a chunked upload sends at most MaxRetry + 1 PATCH requests per chunk,
\* numbered from 0 for every chunk, at most numChunks * (MaxRetry + 1)
\* PATCH requests in all and at most one finalize PUT, whatever the
\* registry answers.
C34_TerminatesWithinBudget ==
    /\ [][UploadStepsLeft' < UploadStepsLeft /\ UploadStepsLeft' >= 0]_vars
    /\ [](uploadFormat = "chunked" =>
             /\ \A k \in PatchIdx :
                   LET mine == {j \in PatchIdx : reqLog[j].chunk = reqLog[k].chunk}
                   IN  /\ Cardinality(mine) <= MaxRetry + 1
                       /\ {reqLog[j].attempt : j \in mine} = 0..(Cardinality(mine) - 1)
                       /\ reqLog[k].chunk < CeilDiv(size, uploadChunkSize)
             /\ Cardinality(PatchIdx) <= CeilDiv(size, uploadChunkSize) * (MaxRetry + 1)
             /\ Cardinality(PutIdx) <= 1)

\* two chunks, each accepted on its last permitted attempt, then the PUT
C34_Witness ==
    /\ uploadFormat = "chunked"
    /\ MaxRetry = 1
    /\ upc = "done" /\ result = "ok"
    /\ Len(acks) = 2
    /\ Cardinality(PatchIdx) = 4
    /\ Cardinality(PutIdx) = 1


\* C35: a completing PUT (monolithic upload or chunked finalize) answered
\* 201 Created without a Location header still ends the upload without an
\* error.
C35_NoLocationStillSucceeds ==
    (/\ upc = "done"
     /\ lastOutcome.err = "none"
     /\ lastOutcome.status = StatusCreated
     /\ lastOutcome.location = NoLocation)
       => result = "ok"


(***************************************************************************)
(* Unpack filters (ParseFilter, shouldUnpackLayer).  A filter string is    *)
(* the sequence of its words and of the ":" and "," between them.          *)
(***************************************************************************)
\* a FilterConf; ModelFilter is what ParseFilter("model") returns
FilterConf(baseTypes, filters) == [BaseTypes |-> baseTypes, Filters |-> filters]

ModelFilter == FilterConf(<<"model">>, <<>>)

\* fc.matchesBaseType(baseType)
MatchesBaseType(fc, baseType) ==
    \E i \in 1..Len(fc.BaseTypes) : fc.BaseTypes[i] = baseType

validFilterTypes == {"kitfile", "model", "datasets", "code", "prompts", "docs"}

\* the fields strings.Split(s, sep) returns, each as a string
SplitWords(s, sep) ==
    LET fields == Split(s, sep)
    IN  [i \in 1..Len(fields) |->
            IF fields[i] = <<>> THEN "" ELSE fields[i][1]]

\* ParseFilter(filter): err is "" when a FilterConf is returned
ParseFilter(filter) ==
    LET typesAndIds == Split(filter, ":")
        types == SplitWords(typesAndIds[1], ",")
    IN  IF Len(typesAndIds) > 2
        THEN [err |-> "invalid filter", conf |-> FilterConf(<<>>, <<>>)]
        ELSE IF \E i \in 1..Len(types) : types[i] \notin validFilterTypes
        THEN [err |-> "invalid filter type", conf |-> FilterConf(<<>>, <<>>)]
        ELSE IF Len(typesAndIds) = 1
        THEN [err |-> "", conf |-> FilterConf(types, <<>>)]
        ELSE [err |-> "",
              conf |-> FilterConf(types, SplitWords(typesAndIds[2], ","))]

\* a slip: a filter with a name list matches every name
MatchesField_Always(fc, field) == TRUE

\* fc.matchesField(field)
MatchesField(fc, field) ==
    \/ Len(fc.Filters) = 0
    \/ \E i \in 1..Len(fc.Filters) : fc.Filters[i] = field

\* matchesFilters(baseType, field, filterConfs)
MatchesFilters(baseType, field, filterConfs) ==
    \E i \in 1..Len(filterConfs) :
        /\ MatchesBaseType(filterConfs[i], baseType)
        /\ MatchesField(filterConfs[i], field)

\* shouldUnpackLayer(config, filters) for the Kitfile itself
ShouldUnpackKitfile(filters) ==
    \/ Len(filters) = 0
    \/ \E i \in 1..Len(filters) : MatchesBaseType(filters[i], "kitfile")

\* every layer is unpacked, whatever the filters
ShouldUnpackLayer_Always(layer, filters) == TRUE

\* shouldUnpackLayer(layer, filters) for a layer of the Kitfile: layer.kind
\* is the Go type of the entry
ShouldUnpackLayer(layer, filters) ==
    IF Len(filters) = 0 THEN TRUE
    ELSE CASE layer.kind = "KitFile" -> ShouldUnpackKitfile(filters)
           [] layer.kind \in {"Model", "ModelPart"} ->
                \/ MatchesFilters("model", layer.name, filters)
                \/ MatchesFilters("model", layer.path, filters)
           [] layer.kind = "Docs" -> MatchesFilters("docs", layer.path, filters)
           [] layer.kind = "DataSet" ->
                \/ MatchesFilters("datasets", layer.name, filters)
                \/ MatchesFilters("datasets", layer.path, filters)
           [] layer.kind = "Code" -> MatchesFilters("code", layer.path, filters)
           [] layer.kind = "Prompt" ->
                MatchesFilters("prompts", layer.path, filters)
           [] OTHER -> FALSE

\* the filter strings a caller may pass
FilterStrings ==
    { <<"model">>, <<"model", ":">>, <<"model", ":", "m">>,
      <<"datasets", ",", "code", ":", "m", ",", "p">>,
      <<"kitfile", ":", "q">>, <<"docs", ",", "prompts">>,
      <<"docs", ":">>, <<"bogus">>, <<"model", ",">>,
      <<"model", ":", "m", ":", "p">> }

\* the Kitfile entries a filter may be asked about
FilterEntries ==
    [kind : {"KitFile", "Model", "ModelPart", "Docs", "DataSet", "Code",
             "Prompt"},
     name : {"", "m"}, path : {"p", "q"}]

\* the sequences of at most n elements of S

(***************************************************************************)
(* UnpackModelKit: the recursion over parent references (unpackRecursive   *)
(* and unpackParent).  References are numbered; a store maps each to what  *)
(* it resolves to.                                                         *)
(***************************************************************************)
Refs == 1..MaxRefs

\* config.Model is nil or config.Model.Path is no ModelKit reference
NoRef == 0

\* the opts.FilterConfs a caller may pass
FilterChoices ==
    { <<>>,
      <<ModelFilter>>,
      <<FilterConf(<<"datasets">>, <<>>)>>,
      <<FilterConf(<<"kitfile", "model">>, <<>>)>>,
      <<FilterConf(<<"datasets", "code">>, <<>>), FilterConf(<<"docs", "model">>, <<"m">>)>>,
      <<FilterConf(<<"code">>, <<"q">>)>> }

\* a slip: no reference is ever found in the list
GetIndex_Never(list, r) == 0

\* getIndex(list, s): the first index of s in list (from 1), 0 for -1
GetIndex(list, r) ==
    IF \E i \in 1..Len(list) : list[i] = r
    THEN CHOOSE i \in 1..Len(list) :
            /\ list[i] = r
            /\ \A j \in 1..(i - 1) : list[j] # r
    ELSE 0

\* the loop of unpackParent that keeps the filters matching the model type,
\* each cut down to that type
RECURSIVE ModelOnly(_)
ModelOnly(filters) ==
    IF filters = <<>> THEN <<>>
    ELSE IF MatchesBaseType(Head(filters), "model")
         THEN <<FilterConf(<<"model">>, Head(filters).Filters)>> \o ModelOnly(Tail(filters))
         ELSE ModelOnly(Tail(filters))

\* a slip: the parent is unpacked with the caller's filters
ParentFilters_Unchanged(filters) == filters

\* the filters unpackParent hands to the parent: <<>> stands for "return nil"
\* when the caller's filters are not empty
ParentFilters(filters) ==
    IF Len(filters) = 0 THEN <<ModelFilter>> ELSE ModelOnly(filters)

\* a slip: the reference about to be followed is counted as well
TooManyRefs_CountsNext(visitedRefs) == Len(visitedRefs) + 1 > MaxModelRefChain

\* a slip: the chain is cut one reference early
TooManyRefs_Inclusive(visitedRefs) == Len(visitedRefs) >= MaxModelRefChain

\* len(visitedRefs) > constants.MaxModelRefChain
TooManyRefs(visitedRefs) == Len(visitedRefs) > MaxModelRefChain

\* a store holding a chain 1 -> 2 -> ... -> n of Kitfiles whose last
\* element refers to `back` (NoRef: to nothing) or is of kind lastKind
ChainStore(n, back, lastKind) ==
    [r \in Refs |->
       IF r < n THEN [kind |-> "kitfile", parent |-> r + 1]
       ELSE IF r = n THEN [kind |-> lastKind,
                           parent |-> IF lastKind = "kitfile" THEN back ELSE NoRef]
       ELSE [kind |-> "missing", parent |-> NoRef]]

Frame(ref, visitedRefs, filters, pos) ==
    [ref |-> ref, visitedRefs |-> visitedRefs, filters |-> filters, pos |-> pos]

\* UnpackModelKit(ctx, opts) calls unpackRecursive(ctx, opts, []string{})
InitUnpack ==
    /\ \E n \in Refs, back \in {NoRef} \cup Refs,
          lastKind \in {"kitfile", "modelpack", "missing"} :
          /\ back <= n
          /\ kit = ChainStore(n, back, lastKind)
    /\ unpackOpts \in FilterChoices
    /\ ustack = <<Frame(1, <<>>, unpackOpts, "enter")>>
    /\ unpackLog = <<>>
    /\ uresult = "none"
    /\ uerr = ""

Top == ustack[Len(ustack)]

\* an error is returned through every active call
UnpackFails(msg) ==
    /\ uresult' = "error"
    /\ uerr' = msg
    /\ ustack' = <<>>
    /\ UNCHANGED <<kit, unpackLog, unpackOpts>>

\* the top call goes on to unpack its config and layers
ToBody ==
    /\ ustack' = [ustack EXCEPT ![Len(ustack)].pos = "body"]
    /\ UNCHANGED <<kit, unpackLog, unpackOpts, uresult, uerr>>

\* unpackParent(ctx, ref, optsIn, visitedRefs)
UnpackParent(ref, filters, visitedRefs) ==
    IF GetIndex(visitedRefs, ref) # 0
    THEN UnpackFails("found cycle in modelkit references")
    ELSE IF ParentFilters(filters) = <<>>
    THEN ToBody
    ELSE /\ ustack' = Append([ustack EXCEPT ![Len(ustack)].pos = "body"],
                             Frame(ref, Append(visitedRefs, ref),
                                   ParentFilters(filters), "enter"))
         /\ UNCHANGED <<kit, unpackLog, unpackOpts, uresult, uerr>>

\* a slip: the call writes its own config before it turns to its parent
UnpackRecursiveEnter_ConfigFirst ==
    /\ uresult = "none"
    /\ ustack # <<>>
    /\ Top.pos = "enter"
    /\ IF TooManyRefs(Top.visitedRefs)
       THEN UnpackFails("reached maximum number of model references")
       ELSE IF kit[Top.ref].kind = "missing"
       THEN UnpackFails("failed to resolve reference")
       ELSE IF /\ kit[Top.ref].kind = "kitfile" /\ kit[Top.ref].parent # NoRef
               /\ GetIndex(Top.visitedRefs, kit[Top.ref].parent) = 0
               /\ ParentFilters(Top.filters) # <<>>
       THEN /\ unpackLog' = Append(unpackLog,
                   [ref |-> Top.ref, filters |-> Top.filters,
                    depth |-> Len(Top.visitedRefs), kinds |-> {},
                    kitfile |-> ShouldUnpackKitfile(Top.filters), done |-> FALSE])
            /\ ustack' = Append([ustack EXCEPT ![Len(ustack)].pos = "body"],
                             Frame(kit[Top.ref].parent,
                                   Append(Top.visitedRefs, kit[Top.ref].parent),
                                   ParentFilters(Top.filters), "enter"))
            /\ UNCHANGED <<kit, unpackOpts, uresult, uerr>>
       ELSE IF kit[Top.ref].kind = "kitfile" /\ kit[Top.ref].parent # NoRef
       THEN UnpackParent(kit[Top.ref].parent, Top.filters, Top.visitedRefs)
       ELSE ToBody

\* unpackRecursive from its entry to the call of unpackParent (or, without
\* a parent to unpack, to the unpacking of its own config and layers)
UnpackRecursiveEnter ==
    /\ uresult = "none"
    /\ ustack # <<>>
    /\ Top.pos = "enter"
    /\ IF TooManyRefs(Top.visitedRefs)
       THEN UnpackFails("reached maximum number of model references")
       ELSE IF kit[Top.ref].kind = "missing"
       THEN UnpackFails("failed to resolve reference")
       ELSE IF kit[Top.ref].kind = "kitfile" /\ kit[Top.ref].parent # NoRef
       THEN UnpackParent(kit[Top.ref].parent, Top.filters, Top.visitedRefs)
       ELSE ToBody

\* what a call of unpackRecursive has or may have written: how deep in the
\* chain it was, whether it wrote its Kitfile, the kinds of entry its
\* filters let the loop unpack, and whether it got through (done) or
\* returned an error on the way
UnpackRecord(frame, done) ==
    [ref |-> frame.ref, filters |-> frame.filters,
     depth |-> Len(frame.visitedRefs),
     kinds |-> {e.kind : e \in {f \in FilterEntries :
                   ShouldUnpackLayer(f, frame.filters)}},
     kitfile |-> kit[frame.ref].kind = "kitfile"
                 /\ ShouldUnpackKitfile(frame.filters),
     done |-> done]

\* a slip: the error of a parent is logged and the caller goes on
UnpackRecursiveBody_IgnoresError ==
    /\ uresult = "none"
    /\ ustack # <<>>
    /\ Top.pos = "body"
    /\ \E ok \in BOOLEAN :
         IF ~ok /\ Len(ustack) = 1
         THEN /\ unpackLog' = Append(unpackLog, UnpackRecord(Top, FALSE))
              /\ uresult' = "error"
              /\ uerr' = "failed to unpack"
              /\ ustack' = <<>>
              /\ UNCHANGED <<kit, unpackOpts>>
         ELSE /\ unpackLog' = Append(unpackLog, UnpackRecord(Top, ok))
              /\ ustack' = SubSeq(ustack, 1, Len(ustack) - 1)
              /\ uresult' = IF Len(ustack) = 1 THEN "ok" ELSE "none"
              /\ UNCHANGED <<kit, unpackOpts, uerr>>

\* unpackRecursive after unpackParent: unpackConfig and the loop over the
\* manifest's layers, which succeed or return an error (a file in the way,
\* a digest that does not match, a layer that cannot be read) after they
\* have written some of their files; the error goes back through every
\* caller at once
UnpackRecursiveBody ==
    /\ uresult = "none"
    /\ ustack # <<>>
    /\ Top.pos = "body"
    /\ \E ok \in BOOLEAN :
         IF ~ok
         THEN /\ unpackLog' = Append(unpackLog, UnpackRecord(Top, FALSE))
              /\ uresult' = "error"
              /\ uerr' = "failed to unpack"
              /\ ustack' = <<>>
              /\ UNCHANGED <<kit, unpackOpts>>
         ELSE /\ unpackLog' = Append(unpackLog, UnpackRecord(Top, TRUE))
              /\ ustack' = SubSeq(ustack, 1, Len(ustack) - 1)
              /\ uresult' = IF Len(ustack) = 1 THEN "ok" ELSE "none"
              /\ UNCHANGED <<kit, unpackOpts, uerr>>

NextUnpack ==
    \/ UnpackRecursiveEnter /\ UNCHANGED notUnpack
    \/ UnpackRecursiveBody /\ UNCHANGED notUnpack

\* no unpack is running
IdleUnpack ==
    /\ kit = ChainStore(1, NoRef, "kitfile")
    /\ ustack = <<>>
    /\ unpackLog = <<>>
    /\ unpackOpts = <<>>
    /\ uresult = "none"
    /\ uerr = ""

(***************************************************************************)
(* Properties of the parent-chain recursion.                               *)
(***************************************************************************)
CycleError == "found cycle in modelkit references"

MaxRefsError == "reached maximum number of model references"

\* the last ModelKit of the chain 1 -> 2 -> ... the store holds
LastKit ==
    CHOOSE n \in Refs :
        /\ ~(kit[n].kind = "kitfile" /\ kit[n].parent = n + 1)
        /\ \A r \in 1..(n - 1) : kit[r].kind = "kitfile" /\ kit[r].parent = r + 1

\* the chain of parent references leads back into itself
Cyclic == kit[LastKit].kind = "kitfile" /\ kit[LastKit].parent # NoRef

\* the number of parent references of an acyclic chain
NumParents == LastKit - 1

\* the number of references followed when the first revisit is met
RevisitDepth == IF kit[LastKit].parent = 1 THEN LastKit ELSE LastKit - 1

\* the call follows parent references: it was given no filter, or a filter
\* that admits the model type
ParentsFollowed ==
    \/ Len(unpackOpts) = 0
    \/ \E i \in 1..Len(unpackOpts) : MatchesBaseType(unpackOpts[i], "model")

\* C8 as stated: an unpack that follows parent references and whose chain
\* revisits a reference fails with the cycle error, whenever it ends
C8_RevisitGivesCycleError ==
    Cyclic /\ ParentsFollowed /\ uresult # "none"
        => uresult = "error" /\ uerr = CycleError

\* C8 amended: an unpack that follows parent references and whose chain
\* revisits a reference ends, and ends with an error: the cycle error when
\* the revisit is met within MaxModelRefChain followed references, the
\* maximum-references error otherwise.  The active calls never number more
\* than MaxModelRefChain + 2 (the last of them returns the error at once).
C8_RevisitFailsAndTerminates ==
    /\ [](Cyclic /\ ParentsFollowed /\ uresult # "none"
            => /\ uresult = "error"
               /\ uerr = IF RevisitDepth <= MaxModelRefChain
                         THEN CycleError ELSE MaxRefsError)
    /\ [](Len(ustack) <= MaxModelRefChain + 2)
    /\ <>(uresult # "none")

\* the chain A -> B -> A was unpacked and the cycle error returned
C8_Witness ==
    /\ LastKit = 2 /\ kit[2].kind = "kitfile" /\ kit[2].parent = 1
    /\ ParentsFollowed
    /\ uresult = "error" /\ uerr = CycleError

\* C9: an unpack that follows parent references along an acyclic chain
\* fails with the maximum-references error when the chain has more than
\* MaxModelRefChain parent references, and does not fail with that error
\* when it has MaxModelRefChain or fewer
C9_AtMostMaxModelRefChainParents ==
    ~Cyclic /\ ParentsFollowed /\ uresult # "none"
        => IF NumParents > MaxModelRefChain
           THEN uresult = "error" /\ uerr = MaxRefsError
           ELSE uerr # MaxRefsError

\* a chain of MaxModelRefChain + 1 parent references was refused
C9_Witness ==
    /\ ~Cyclic /\ ParentsFollowed
    /\ NumParents = MaxModelRefChain + 1
    /\ uresult = "error" /\ uerr = MaxRefsError

\* the calls of unpackRecursive that got past the depth test: those at work
\* on their config and layers, and those that have unpacked them
DepthsResolved ==
    {Len(ustack[k].visitedRefs) : k \in {j \in 1..Len(ustack) : ustack[j].pos = "body"}}
    \cup {unpackLog[k].depth : k \in 1..Len(unpackLog)}

\* C30 (as stated): as soon as MaxModelRefChain parent references have been
\* followed the unpack fails with the depth error, and the ModelKit at
\* depth MaxModelRefChain is never resolved or unpacked.
C30_AsStated ==
    (~Cyclic /\ ParentsFollowed) =>
       /\ \A d \in DepthsResolved : d < MaxModelRefChain
       /\ (NumParents >= MaxModelRefChain /\ uresult # "none") =>
             uresult = "error" /\ uerr = MaxRefsError

\* C30 (amended): the unpack fails with the depth error when
\* MaxModelRefChain + 1 parent references have been followed: the ModelKit
\* at depth MaxModelRefChain + 1 is never resolved or unpacked and nothing
\* of the chain is unpacked, while the one at depth MaxModelRefChain is
\* resolved and, when it is the last of the chain, unpacked.
C30_DepthLimit ==
    (~Cyclic /\ ParentsFollowed) =>
       /\ \A d \in DepthsResolved : d <= MaxModelRefChain
       /\ (NumParents > MaxModelRefChain /\ uresult # "none") =>
             /\ uresult = "error" /\ uerr = MaxRefsError
             /\ unpackLog = <<>>
       /\ uerr = MaxRefsError => NumParents > MaxModelRefChain
       /\ (NumParents = MaxModelRefChain /\ uresult = "ok") =>
             \E k \in 1..Len(unpackLog) : unpackLog[k].depth = MaxModelRefChain

\* a chain of exactly MaxModelRefChain parents was unpacked, its last
\* ModelKit first
C30_Witness ==
    /\ ~Cyclic /\ ParentsFollowed
    /\ NumParents = MaxModelRefChain
    /\ uresult = "ok"
    /\ unpackLog # <<>>
    /\ unpackLog[1].depth = MaxModelRefChain


\* C36: an unpack that fails because a reference comes back (cycle) or
\* because the chain of parents is too long has written nothing: no call
\* of the chain has come to its Kitfile or its layers, neither one that
\* got through nor one that failed on the way.
C36_ChainFailureWritesNothing ==
    /\ uerr \in {CycleError, MaxRefsError} => uresult = "error" /\ unpackLog = <<>>
    /\ (uresult = "none" /\ \E k \in 1..Len(ustack) : ustack[k].pos = "enter")
          => unpackLog = <<>>

\* a chain of three ModelKits whose last refers to the second was walked
\* to the cycle
C36_Witness ==
    /\ LastKit = 3 /\ kit[3].kind = "kitfile" /\ kit[3].parent = 2
    /\ unpackOpts = <<>>
    /\ uresult = "error" /\ uerr = CycleError
    /\ unpackLog = <<>>

\* C37: the ModelKits of a chain are unpacked from the farthest ancestor
\* to the ModelKit asked for: each call that comes to its Kitfile and
\* layers is one step nearer than the one before it, the first is the end
\* of the chain, every one before the last got through, and none follows
\* one that failed; the unpack succeeds only when the ModelKit asked for
\* was unpacked last.
C37_AncestorsFirst ==
    /\ \A k \in 1..Len(unpackLog) :
          /\ unpackLog[k].depth = unpackLog[1].depth - (k - 1)
          /\ k < Len(unpackLog) => unpackLog[k].done
          /\ unpackLog[k].depth > 0 => ~unpackLog[k].kitfile
    /\ (unpackLog # <<>> /\ ParentsFollowed /\ ~Cyclic)
          => unpackLog[1].ref = LastKit /\ unpackLog[1].depth = NumParents
    /\ (unpackLog # <<>> /\ uresult = "none")
          => /\ unpackLog[Len(unpackLog)].done
             /\ Len(ustack) = unpackLog[Len(unpackLog)].depth
             /\ \A k \in 1..Len(ustack) : ustack[k].pos = "body"
    /\ uresult = "ok"
          => /\ unpackLog # <<>>
             /\ unpackLog[Len(unpackLog)].depth = 0
             /\ unpackLog[Len(unpackLog)].done

\* of the chain 1 -> 2 -> 3 the farthest ancestor was unpacked, the next
\* failed, and the ModelKit asked for was never come to
C37_Witness ==
    /\ LastKit = 3 /\ ~Cyclic /\ kit[3].kind = "kitfile"
    /\ unpackOpts = <<>>
    /\ uresult = "error" /\ uerr = "failed to unpack"
    /\ Len(unpackLog) = 2
    /\ unpackLog[1].ref = 3 /\ unpackLog[1].done
    /\ unpackLog[2].ref = 2 /\ ~unpackLog[2].done

\* the caller's filters are not empty and none of them lists the type model
NoModelAdmitted ==
    /\ unpackOpts # <<>>
    /\ \A i \in 1..Len(unpackOpts) : ~MatchesBaseType(unpackOpts[i], "model")

\* C12: a call for an ancestor unpacks entries of type model and model-part
\* only and never writes the ancestor's Kitfile, whatever the caller's
\* filters; when these are not empty and admit no model type, no call for a
\* parent is made.
C12_AncestorsGiveModelLayersOnly ==
    /\ \A k \in 1..Len(unpackLog) :
          unpackLog[k].depth > 0 =>
             /\ unpackLog[k].kinds \subseteq {"Model", "ModelPart"}
             /\ ~unpackLog[k].kitfile
    /\ NoModelAdmitted =>
          /\ \A k \in 1..Len(ustack) : ustack[k].visitedRefs = <<>>
          /\ \A k \in 1..Len(unpackLog) : unpackLog[k].depth = 0

\* without filters a parent and then the ModelKit itself were unpacked: the
\* parent gave its model only, the ModelKit its Kitfile and datasets too
C12_Witness ==
    /\ unpackOpts = <<>>
    /\ uresult = "ok"
    /\ Len(unpackLog) = 2
    /\ unpackLog[1].depth = 1
    /\ unpackLog[1].kinds = {"Model", "ModelPart"}
    /\ unpackLog[2].depth = 0
    /\ unpackLog[2].kitfile
    /\ "DataSet" \in unpackLog[2].kinds

(***************************************************************************)
(* extractTar: the loop over the entries of a layer's tar stream.  A path  *)
(* is a sequence of one-character strings.  The file system holds no       *)
(* symbolic links.                                                         *)
(***************************************************************************)
\* the working directory UnpackModelKit changed to: the unpack root
Getwd == <<"/", "w", "/", "r">>

DotDot == <<".", ".">>

\* filepath.IsAbs(path)
IsAbs(path) == path # <<>> /\ Head(path) = "/"

\* the elements a cleaned path is made of: empty elements and "." dropped,
\* ".." taking back the element before it, a ".." at the root dropped and
\* a leading ".." of a relative path kept
RECURSIVE CleanElems(_, _, _)
CleanElems(elems, rooted, out) ==
    IF elems = <<>> THEN out
    ELSE LET e == Head(elems)
             rest == Tail(elems)
         IN  IF e = <<>> \/ e = <<".">> THEN CleanElems(rest, rooted, out)
             ELSE IF e = DotDot
             THEN IF out # <<>> /\ out[Len(out)] # DotDot
                  THEN CleanElems(rest, rooted, SubSeq(out, 1, Len(out) - 1))
                  ELSE IF rooted THEN CleanElems(rest, rooted, out)
                  ELSE CleanElems(rest, rooted, Append(out, e))
             ELSE CleanElems(rest, rooted, Append(out, e))

\* strings.Join(elems, "/")
RECURSIVE JoinElems(_)
JoinElems(elems) ==
    IF elems = <<>> THEN <<>>
    ELSE IF Len(elems) = 1 THEN Head(elems)
    ELSE Head(elems) \o <<"/">> \o JoinElems(Tail(elems))

Elems(path) == CleanElems(Split(path, "/"), IsAbs(path), <<>>)

\* filepath.Clean(path)
Clean(path) ==
    IF IsAbs(path) THEN <<"/">> \o JoinElems(Elems(path))
    ELSE IF Elems(path) = <<>> THEN <<".">>
    ELSE JoinElems(Elems(path))

\* filepath.Join(a, b): the non-empty arguments joined by "/" and cleaned
Join(a, b) ==
    IF a = <<>> /\ b = <<>> THEN <<>>
    ELSE IF a = <<>> THEN Clean(b)
    ELSE IF b = <<>> THEN Clean(a)
    ELSE Clean(a \o <<"/">> \o b)

\* filepath.Abs(path), which is also the place a system call resolves path to
Abs(path) == IF IsAbs(path) THEN Clean(path) ELSE Join(Getwd, path)

\* filepath.Dir(path) of a cleaned relative path
Dir(path) ==
    IF Len(Elems(path)) <= 1 THEN <<".">>
    ELSE JoinElems(SubSeq(Elems(path), 1, Len(Elems(path)) - 1))

\* path is root or lies below it (both absolute and clean)
Within(root, path) ==
    /\ Len(Elems(root)) <= Len(Elems(path))
    /\ SubSeq(Elems(path), 1, Len(Elems(root))) = Elems(root)

\* filesystem.VerifySubpath(context, subDir) returns no error: the context
\* joined with subDir is a subpath of the context
VerifySubpath(context, subDir) ==
    Within(Abs(context), Join(Abs(context), subDir))

\* filesystem.PathExists(path)
PathExists(path) == Abs(path) \in dirs \cup files

\* the directories above an absolute path, and the path itself
RECURSIVE Ancestors(_)
Ancestors(elems) ==
    IF elems = <<>> THEN {<<"/">>}
    ELSE {<<"/">> \o JoinElems(elems)}
         \cup Ancestors(SubSeq(elems, 1, Len(elems) - 1))

\* os.MkdirAll(path, mode) returns no error: no file is in the way
MkdirAllOk(path) == Ancestors(Elems(Abs(path))) \cap files = {}

\* the directories os.MkdirAll(path, mode) creates
MkdirAllNew(path) == Ancestors(Elems(Abs(path))) \ dirs

\* os.OpenFile(path, O_CREATE|O_TRUNC|O_RDWR, mode) returns no error: the
\* directory of path exists and path is no directory
OpenFileOk(path) ==
    /\ Abs(path) \notin dirs
    /\ Elems(Abs(path)) # <<>>
    /\ Join(Abs(path), DotDot) \in dirs

\* header.Name of the entries a layer may hold
Names ==
    { <<"x">>,
      <<"a", "/", "x">>,
      <<".", ".", "/", "x">>,
      <<".", ".", "/", ".", ".", "/", "x">>,
      <<".", ".", "/", ".", ".", "/", "a", "/", "x">>,
      <<"/", "x">> }

\* header.Typeflag: tar.TypeDir, tar.TypeReg, and tar.TypeSymlink for the rest
Typeflags == {"TypeDir", "TypeReg", "TypeSymlink"}

\* the layer path of the Kitfile entry (relPath of unpackRecursive), "" when
\* the entry carries a layerInfo
UnpackPaths == { <<>>, <<"a", "/", "m">> }

\* what the unpack root may hold before the layer is unpacked
ExistingChoices ==
    { [d |-> {}, f |-> {}],
      [d |-> {Getwd \o <<"/", "x">>}, f |-> {}],
      [d |-> {}, f |-> {Getwd \o <<"/", "x">>}] }

\* no header has been read
NoHeader == [name |-> <<>>, typeflag |-> "", exists |-> FALSE]

\* unpackLayer up to its call of extractTar
InitExtract ==
    /\ \E unpackPath \in UnpackPaths :
          extractDir = IF unpackPath = <<>> THEN <<>> ELSE Dir(unpackPath)
    /\ overwrite \in BOOLEAN
    /\ ignoreExisting \in BOOLEAN
    /\ \E e \in ExistingChoices :
          /\ files = e.f
          /\ dirs = Ancestors(Elems(Getwd)) \cup e.d
                    \cup (IF extractDir = <<>> THEN {}
                          ELSE Ancestors(Elems(Abs(extractDir))))
    /\ written = {}
    /\ content = [path \in files |-> 0]
    /\ entries = 0
    /\ header = NoHeader
    /\ eresult = "none"
    /\ eerr = ""
    /\ extractCtxDone = FALSE

\* outPath of extractTar
OutPath(name) == IF extractDir # <<>> THEN Join(extractDir, name) ELSE name

ExtractFails(msg) ==
    /\ eresult' = "error"
    /\ eerr' = msg

\* the loop goes on to the next entry
ExtractContinues == UNCHANGED <<eresult, eerr>>

\* case tar.TypeDir
ExtractDir(outPath) ==
    IF PathExists(outPath)
    THEN /\ IF Abs(outPath) \notin dirs
            THEN ExtractFails("already exists and is not a directory")
            ELSE ExtractContinues
         /\ UNCHANGED <<dirs, files, written, content>>
    ELSE IF ~MkdirAllOk(outPath)
    THEN /\ ExtractFails("failed to create directory")
         /\ UNCHANGED <<dirs, files, written, content>>
    ELSE /\ dirs' = dirs \cup MkdirAllNew(outPath)
         /\ written' = written \cup MkdirAllNew(outPath)
         /\ ExtractContinues
         /\ UNCHANGED <<files, content>>

\* a slip: overwrite wins over ignoreExisting
ExtractReg_OverwriteFirst(outPath, copied) ==
    IF PathExists(outPath) /\ ~overwrite
    THEN IF ignoreExisting
         THEN ExtractContinues /\ UNCHANGED <<dirs, files, written, content>>
         ELSE ExtractFails("already exists")
              /\ UNCHANGED <<dirs, files, written, content>>
    ELSE /\ files' = files \cup {Abs(outPath)}
         /\ written' = written \cup {Abs(outPath)}
         /\ content' = [path \in files \cup {Abs(outPath)} |->
                           IF path = Abs(outPath) THEN entries + 1
                           ELSE content[path]]
         /\ ExtractContinues
         /\ UNCHANGED dirs

\* case tar.TypeReg; copied: io.Copy wrote header.Size bytes without error
ExtractReg(outPath, copied) ==
    IF PathExists(outPath) /\ ignoreExisting
    THEN ExtractContinues /\ UNCHANGED <<dirs, files, written, content>>
    ELSE IF PathExists(outPath) /\ ~overwrite
    THEN ExtractFails("already exists") /\ UNCHANGED <<dirs, files, written, content>>
    ELSE IF PathExists(outPath) /\ Abs(outPath) \notin files
    THEN /\ ExtractFails("already exists and is not a regular file")
         /\ UNCHANGED <<dirs, files, written, content>>
    ELSE IF ~OpenFileOk(outPath)
    THEN /\ ExtractFails("failed to create file")
         /\ UNCHANGED <<dirs, files, written, content>>
    ELSE /\ files' = files \cup {Abs(outPath)}
         /\ written' = written \cup {Abs(outPath)}
         /\ content' = [path \in files \cup {Abs(outPath)} |->
                           IF path = Abs(outPath) THEN entries + 1
                           ELSE content[path]]
         /\ IF copied THEN ExtractContinues
            ELSE ExtractFails("failed to write file")
         /\ UNCHANGED dirs

\* one pass through the loop of extractTar for the header tr.Next returned
ExtractTarEntry ==
    /\ eresult = "none"
    /\ entries < MaxTarEntries
    /\ \E name \in Names, typeflag \in Typeflags, copied \in BOOLEAN :
         /\ typeflag # "TypeReg" => copied
         /\ entries' = entries + 1
         /\ header' = [name |-> name, typeflag |-> typeflag,
                        exists |-> PathExists(OutPath(name))]
         /\ IF ~VerifySubpath(extractDir, OutPath(name))
            THEN /\ ExtractFails("illegal file path")
                 /\ UNCHANGED <<dirs, files, written, content>>
            ELSE IF typeflag = "TypeDir" THEN ExtractDir(OutPath(name))
            ELSE IF typeflag = "TypeReg" THEN ExtractReg(OutPath(name), copied)
            ELSE /\ ExtractFails("unrecognized type in archive")
                 /\ UNCHANGED <<dirs, files, written, content>>
    /\ UNCHANGED <<extractDir, overwrite, ignoreExisting, extractCtxDone>>

\* tr.Next returns io.EOF
ExtractTarEOF ==
    /\ eresult = "none"
    /\ eresult' = "ok"
    /\ UNCHANGED <<extractDir, overwrite, ignoreExisting, dirs, files,
                   written, content, entries, header, eerr, extractCtxDone>>

\* tr.Next returns another error
ExtractTarReadError ==
    /\ eresult = "none"
    /\ ExtractFails("read error")
    /\ UNCHANGED <<extractDir, overwrite, ignoreExisting, dirs, files,
                   written, content, entries, header, extractCtxDone>>

\* The caller cancels the context handed to UnpackModelKit while the layer
\* is being extracted.  unpackLayer passes ctx to store.Fetch only:
\* extractTar is not given it, so nothing in the loop looks at it.
ExtractCancel ==
    /\ eresult = "none"
    /\ ~extractCtxDone
    /\ extractCtxDone' = TRUE
    /\ UNCHANGED <<extractDir, overwrite, ignoreExisting, dirs, files,
                   written, content, entries, header, eresult, eerr>>

NextExtract ==
    \/ ExtractTarEntry /\ UNCHANGED notExtract
    \/ ExtractTarEOF /\ UNCHANGED notExtract
    \/ ExtractTarReadError /\ UNCHANGED notExtract
    \/ ExtractCancel /\ UNCHANGED notExtract

\* no layer is being extracted
IdleExtract ==
    /\ extractDir = <<>>
    /\ overwrite = FALSE
    /\ ignoreExisting = FALSE
    /\ dirs = {}
    /\ files = {}
    /\ written = {}
    /\ content = <<>>
    /\ entries = 0
    /\ header = NoHeader
    /\ eresult = "none"
    /\ eerr = ""
    /\ extractCtxDone = FALSE

(***************************************************************************)
(* Properties of the tar extraction.                                       *)
(***************************************************************************)
\* C10: during extraction nothing is created outside the unpack root: every
\* path extractTar created or truncated lies within the working directory
\* UnpackModelKit changed to
C10_NothingOutsideUnpackRoot ==
    \A path \in written : Within(Getwd, path)

\* the step read the header of a regular file whose outPath passed
\* VerifySubpath
RegEntryStep ==
    /\ entries' = entries + 1
    /\ header'.typeflag = "TypeReg"
    /\ VerifySubpath(extractDir, OutPath(header'.name))

\* the step left the file system as it was
FilesKept == dirs' = dirs /\ files' = files /\ content' = content

\* C21: for the entry of a regular file whose target exists: with
\* ignoreExisting the entry is skipped and nothing is modified, whatever
\* overwrite; else without overwrite extraction fails and nothing is
\* modified; an existing file is truncated and rewritten with overwrite and
\* without ignoreExisting, and only then.  A target that does not exist is
\* created whatever the two flags are (its directory being there).
C21_ExistingTargets ==
    [][RegEntryStep =>
         LET target == Abs(OutPath(header'.name))
             rewritten == /\ target \in files'
                          /\ content'[target] = entries'
         IN  /\ header'.exists = (target \in dirs \cup files)
             /\ (header'.exists /\ ignoreExisting) =>
                   (FilesKept /\ eresult' = "none")
             /\ (header'.exists /\ ~ignoreExisting /\ ~overwrite) =>
                   (FilesKept /\ eresult' = "error")
             /\ (header'.exists /\ ~FilesKept) =>
                   (overwrite /\ ~ignoreExisting)
             /\ (target \in files /\ overwrite /\ ~ignoreExisting) => rewritten
             /\ (~header'.exists /\ OpenFileOk(OutPath(header'.name))) => rewritten
    ]_vars

\* an existing file was truncated and rewritten by the second entry
C21_Witness ==
    /\ header.typeflag = "TypeReg"
    /\ header.exists
    /\ overwrite /\ ~ignoreExisting
    /\ entries = 2
    /\ eresult = "none"
    /\ Abs(OutPath(header.name)) \in files
    /\ content[Abs(OutPath(header.name))] = 2

\* C25: once the context is cancelled, extractTar reads no further tar
\* entry and creates or writes no further file or directory.
C25_CancelStopsExtraction ==
    [][extractCtxDone =>
          /\ entries' = entries
          /\ dirs' = dirs
          /\ files' = files
          /\ content' = content]_vars

(***************************************************************************)
(* Media types (package mediatype).  A media-type string is the sequence   *)
(* of its words (the runs of \w characters, the fixed prefix of a dialect  *)
(* taken as one word) and of the "." "+" "-" between them.                 *)
(***************************************************************************)
KitPrefix == "application/vnd.kitops.modelkit"

ModelPackPrefix == "application/vnd.cncf.model"

\* the two regular expressions of ParseMediaType: the submatches, or
\* matched = FALSE.  dotted: the ModelPack base is made of two words.
MatchMediaType(s) ==
    LET n == Len(s)
        \* a word of the regular expressions: a token that is no punctuation
        IsWord(tok) == tok \notin {".", "+", "-", KitPrefix, ModelPackPrefix}
        comp == n >= 2 /\ s[n - 1] = "+" /\ IsWord(s[n])
        m == IF comp THEN n - 2 ELSE n
        compression == IF comp THEN s[n] ELSE ""
        words(idx) == \A i \in idx : IsWord(s[i])
        dots(idx) == \A i \in idx : s[i] = "."
        none == [matched |-> FALSE, dialect |-> "", base |-> <<>>,
                 format |-> "", compression |-> ""]
    IN  IF m = 7 /\ s[1] = KitPrefix /\ dots({2, 4, 6}) /\ words({3})
           /\ s[5] = "v1" /\ s[7] = "tar"
        THEN [matched |-> TRUE, dialect |-> "kit", base |-> <<s[3]>>,
              format |-> "tar", compression |-> compression]
        ELSE IF m = 7 /\ s[1] = ModelPackPrefix /\ dots({2, 4, 6})
                /\ words({3, 7}) /\ s[5] = "v1"
        THEN [matched |-> TRUE, dialect |-> "modelpack", base |-> <<s[3]>>,
              format |-> s[7], compression |-> compression]
        ELSE IF m = 9 /\ s[1] = ModelPackPrefix /\ dots({2, 4, 6, 8})
                /\ words({3, 5, 9}) /\ s[7] = "v1"
        THEN [matched |-> TRUE, dialect |-> "modelpack",
              base |-> <<s[3], ".", s[5]>>,
              format |-> s[9], compression |-> compression]
        ELSE none

\* ParseKitBaseType(s): "" is the error
ParseKitBaseType(base) ==
    IF base \in {<<"config">>, <<"model">>, <<"modelpart">>, <<"dataset">>,
                 <<"code">>, <<"docs">>}
    THEN base[1] ELSE ""

\* ParseModelPackBaseType(s): "" is the error
ParseModelPackBaseType(base) ==
    IF base \in {<<"config">>, <<"model">>, <<"modelpart">>, <<"dataset">>,
                 <<"code">>, <<"docs">>}
    THEN base[1] ELSE ""

\* a slip: the switch has no default, every suffix is taken as it is
ParseCompression_AnyWord(c) == IF c = "" THEN "none" ELSE c

\* a slip: every compression is read as none
ParseCompression_AlwaysNone(c) == "none"

\* ParseCompression(c): "" is the error
ParseCompression(c) ==
    IF c \in {"", "none"} THEN "none"
    ELSE IF c \in {"gzip", "gzip-fastest", "zstd"} THEN c
    ELSE ""

\* ParseFormat(f): "" is the error
ParseFormat(f) == IF f \in {"raw", "tar"} THEN f ELSE ""

KitConfigMediaType == <<KitPrefix, ".", "config", ".", "v1", "+", "json">>

ModelPackConfigMediaType ==
    <<ModelPackPrefix, ".", "config", ".", "v1", "+", "json">>

MediaTypeError(msg) ==
    [err |-> msg, dialect |-> "", baseType |-> "", compressionType |-> "",
     format |-> ""]

\* ParseMediaType(s)
ParseMediaType(s) ==
    LET match == MatchMediaType(s)
        baseType == IF match.dialect = "kit" THEN ParseKitBaseType(match.base)
                    ELSE ParseModelPackBaseType(match.base)
        compressionType == ParseCompression(match.compression)
    IN  IF s = KitConfigMediaType
        THEN [err |-> "", dialect |-> "kit", baseType |-> "config",
              compressionType |-> "", format |-> ""]
        ELSE IF s = ModelPackConfigMediaType
        THEN [err |-> "", dialect |-> "modelpack", baseType |-> "config",
              compressionType |-> "", format |-> ""]
        ELSE IF ~match.matched THEN MediaTypeError("unrecognized media type")
        ELSE IF baseType = "" THEN MediaTypeError("invalid base type")
        ELSE IF compressionType = "" THEN MediaTypeError("invalid compression")
        ELSE IF match.dialect = "kit"
        THEN [err |-> "", dialect |-> "kit", baseType |-> baseType,
              compressionType |-> compressionType, format |-> ""]
        ELSE IF ParseFormat(match.format) = ""
        THEN MediaTypeError("invalid format")
        ELSE [err |-> "", dialect |-> "modelpack", baseType |-> baseType,
              compressionType |-> compressionType,
              format |-> ParseFormat(match.format)]

\* modelpackMediatype.String()
ModelPackString(mt) ==
    LET baseTypeString ==
            CASE mt.baseType = "model" -> <<"weight">>
              [] mt.baseType = "modelpart" -> <<"weight", ".", "config">>
              [] mt.baseType = "dataset" -> <<"dataset">>
              [] mt.baseType = "code" -> <<"code">>
              [] mt.baseType = "docs" -> <<"doc">>
              [] OTHER -> <<"invalid mediatype">>
        formatAndCompression ==
            CASE mt.format = "raw" -> <<"raw">>
              [] mt.format = "tar" /\ mt.compressionType = "none" -> <<"tar">>
              [] mt.format = "tar"
                 /\ mt.compressionType \in {"gzip", "gzip-fastest"}
                   -> <<"tar", "+", "gzip">>
              [] mt.format = "tar" /\ mt.compressionType = "zstd"
                   -> <<"tar", "+", "zstd">>
              [] OTHER -> <<"invalid mediatype">>
    IN  IF mt.baseType = "config" THEN ModelPackConfigMediaType
        ELSE <<ModelPackPrefix, ".">> \o baseTypeString \o <<".", "v1", ".">>
             \o formatAndCompression

\* kitopsMediaType.String()
KitString(mt) ==
    IF mt.baseType = "config" THEN KitConfigMediaType
    ELSE <<KitPrefix, ".", mt.baseType, ".", "v1", ".", "tar">>
         \o (CASE mt.compressionType = "none" -> <<>>
               [] mt.compressionType = "gzip-fastest"
                    -> <<"+", "gzip", "-", "fastest">>
               [] OTHER -> <<"+", mt.compressionType>>)

\* MediaType.String()
MediaTypeString(mt) ==
    IF mt.dialect = "kit" THEN KitString(mt) ELSE ModelPackString(mt)

\* the strings handed to ParseMediaType: the config constants, and every
\* spelling of a base with every spelling of what follows ".v1."
MediaTypeStrings ==
    LET BaseSpellings ==
            { <<"config">>, <<"model">>, <<"modelpart">>, <<"dataset">>,
              <<"code">>, <<"docs">>, <<"weight">>,
              <<"weight", ".", "config">>, <<"doc">>, <<"badbase">> }
        TailSpellings ==
            { <<"tar">>, <<"raw">>, <<"badFormat">>, <<"tar", "+", "gzip">>,
              <<"tar", "+", "zstd">>, <<"tar", "+", "none">>,
              <<"tar", "+", "badCompression">>,
              <<"tar", "+", "gzip", "-", "fastest">>, <<"raw", "+", "gzip">> }
    IN  {KitConfigMediaType, ModelPackConfigMediaType}
        \cup { <<p, ".">> \o b \o <<".", "v1", ".">> \o t :
                 p \in {KitPrefix, ModelPackPrefix},
                 b \in BaseSpellings, t \in TailSpellings }

InitMediaType ==
    /\ mtInput \in MediaTypeStrings
    /\ mtParsed = MediaTypeError("not parsed")
    /\ mtOutput = <<>>
    /\ mtpc = "parse"

\* mt, err := ParseMediaType(s)
MediaTypeParse ==
    /\ mtpc = "parse"
    /\ mtParsed' = ParseMediaType(mtInput)
    /\ mtpc' = IF ParseMediaType(mtInput).err = "" THEN "string" ELSE "done"
    /\ UNCHANGED <<mtInput, mtOutput>>

\* mt.String()
MediaTypeEmit ==
    /\ mtpc = "string"
    /\ mtOutput' = MediaTypeString(mtParsed)
    /\ mtpc' = "done"
    /\ UNCHANGED <<mtInput, mtParsed>>

\* no media type is being parsed
IdleMediaType ==
    /\ mtInput = <<>>
    /\ mtParsed = MediaTypeError("not parsed")
    /\ mtOutput = <<>>
    /\ mtpc = "done"

NextMediaType ==
    \/ MediaTypeParse /\ UNCHANGED notMediaType
    \/ MediaTypeEmit /\ UNCHANGED notMediaType

(***************************************************************************)
(* Properties of the media types.                                          *)
(***************************************************************************)
\* the ModelPack strings of the grammar: a ModelPack base spelling, then
\* raw, tar, or tar with a compression
ValidModelPackStrings ==
    { <<ModelPackPrefix, ".">> \o b \o <<".", "v1", ".">> \o t :
        b \in { <<"weight">>, <<"weight", ".", "config">>, <<"dataset">>,
                <<"code">>, <<"doc">> },
        t \in { <<"raw">>, <<"tar">>, <<"tar", "+", "gzip">>,
                <<"tar", "+", "zstd">> } }

\* the Kit strings of the grammar tried by TestParseKitopsMediaType
ValidKitStrings ==
    {KitConfigMediaType}
    \cup { <<KitPrefix, ".", b, ".", "v1", ".">> \o t :
             b \in {"model", "modelpart", "dataset", "code", "docs"},
             t \in { <<"tar">>, <<"tar", "+", "gzip">> } }

\* C14: for every valid ModelPack media-type string s, ParseMediaType(s)
\* succeeds and String() of the result is s
C14_ModelPackRoundTrip ==
    mtInput \in ValidModelPackStrings /\ mtpc # "parse"
        => /\ mtParsed.err = ""
           /\ mtpc = "done" => mtOutput = mtInput

\* C15: for the Kit config constant and every Kit string with a base of
\* model, modelpart, dataset, code, docs, with or without +gzip,
\* ParseMediaType succeeds and String() of the result is the input
C15_KitRoundTrip ==
    mtInput \in ValidKitStrings /\ mtpc # "parse"
        => /\ mtParsed.err = ""
           /\ mtpc = "done" => mtOutput = mtInput

\* a gzip-compressed Kit model layer type was parsed and written back
C15_Witness ==
    /\ mtInput = <<KitPrefix, ".", "model", ".", "v1", ".", "tar", "+", "gzip">>
    /\ mtpc = "done"
    /\ mtParsed.compressionType = "gzip"
    /\ mtOutput = mtInput

\* C29: ParseMediaType returns an error and no MediaType for a Kit-dialect
\* string whose format is not tar ("unrecognized media type"), whose base
\* type is unknown ("invalid base type"), or whose compression suffix is
\* unknown ("invalid compression"), and for every string that matches
\* neither regular expression.
C29_InvalidMediaTypes ==
    LET s == mtInput
        n == Len(s)
        \* <KitPrefix>.<word>.v1.<word>, with nothing or +<word> after it
        kitShaped == /\ s # KitConfigMediaType
                     /\ n \in {7, 9}
                     /\ s[1] = KitPrefix
                     /\ s[5] = "v1"
                     /\ n = 9 => s[8] = "+"
        knownBase == s[3] \in {"config", "model", "modelpart", "dataset",
                               "code", "docs"}
        knownCompression ==
            n = 9 => s[9] \in {"none", "gzip", "gzip-fastest", "zstd"}
        failsWith(msg) == /\ mtParsed = MediaTypeError(msg)
                          /\ mtpc = "done"
                          /\ mtOutput = <<>>
    IN  mtpc # "parse" =>
          /\ (kitShaped /\ s[7] # "tar") => failsWith("unrecognized media type")
          /\ (kitShaped /\ s[7] = "tar" /\ ~knownBase) =>
                failsWith("invalid base type")
          /\ (kitShaped /\ s[7] = "tar" /\ knownBase /\ ~knownCompression) =>
                failsWith("invalid compression")
          /\ ( /\ s \notin {KitConfigMediaType, ModelPackConfigMediaType}
               /\ ~MatchMediaType(s).matched ) =>
                failsWith("unrecognized media type")

\* the three strings of TestParseKitopsInvalidType have been refused, here
\* the one with the unknown compression
C29_Witness ==
    /\ mtInput = <<KitPrefix, ".", "model", ".", "v1", ".", "tar", "+", "badCompression">>
    /\ mtpc = "done"
    /\ mtParsed = MediaTypeError("invalid compression")

(***************************************************************************)
(* ParseFilter and shouldUnpackLayer, run on their own.                     *)
(***************************************************************************)
SeqsUpTo(S, n) == UNION {[1..k -> S] : k \in 0..n}

InitFilter ==
    /\ filterStrings \in SeqsUpTo(FilterStrings, MaxFilters)
    /\ filterEntry \in FilterEntries
    /\ parsedFilters = <<>>
    /\ filterResult = "none"
    /\ filterpc = "parse"

\* every filter string goes through ParseFilter; the first error ends it
FilterParseAll ==
    /\ filterpc = "parse"
    /\ IF \E i \in 1..Len(filterStrings) : ParseFilter(filterStrings[i]).err # ""
       THEN /\ filterpc' = "done"
            /\ filterResult' = "error"
            /\ UNCHANGED parsedFilters
       ELSE /\ filterpc' = "match"
            /\ parsedFilters' = [i \in 1..Len(filterStrings) |->
                                  ParseFilter(filterStrings[i]).conf]
            /\ UNCHANGED filterResult
    /\ UNCHANGED <<filterStrings, filterEntry>>

\* shouldUnpackLayer(entry, filters)
FilterMatch ==
    /\ filterpc = "match"
    /\ filterResult' = IF ShouldUnpackLayer(filterEntry, parsedFilters)
                       THEN "unpack" ELSE "skip"
    /\ filterpc' = "done"
    /\ UNCHANGED <<filterStrings, filterEntry, parsedFilters>>

NextFilter ==
    \/ FilterParseAll /\ UNCHANGED notFilter
    \/ FilterMatch /\ UNCHANGED notFilter

\* no filter is being looked at
IdleFilter ==
    /\ filterStrings = <<>>
    /\ filterEntry = [kind |-> "KitFile", name |-> "", path |-> "p"]
    /\ parsedFilters = <<>>
    /\ filterResult = "none"
    /\ filterpc = "done"

(***************************************************************************)
(* Properties of the filters.                                              *)
(***************************************************************************)
\* the filter type under which an entry of a kind is selected
FilterTypeOf(kind) ==
    CASE kind = "KitFile" -> "kitfile"
      [] kind \in {"Model", "ModelPart"} -> "model"
      [] kind = "DataSet" -> "datasets"
      [] kind = "Docs" -> "docs"
      [] kind = "Code" -> "code"
      [] kind = "Prompt" -> "prompts"

\* C18: with no filter every entry is unpacked; with filters, the Kitfile
\* is unpacked iff some filter lists kitfile, and any other entry iff one
\* filter lists its type and has no name list, or holds the entry's path,
\* or (model, model part, dataset) holds the entry's name
C18_ShouldUnpackLayer ==
    filterpc = "done" /\ filterResult # "error" =>
        LET fs == parsedFilters
            e == filterEntry
            listed(f) == \E i \in 1..Len(f.BaseTypes) :
                            f.BaseTypes[i] = FilterTypeOf(e.kind)
            holds(f, x) == \E i \in 1..Len(f.Filters) : f.Filters[i] = x
            named == e.kind \in {"Model", "ModelPart", "DataSet"}
            expected ==
                IF Len(fs) = 0 THEN TRUE
                ELSE IF e.kind = "KitFile"
                THEN \E k \in 1..Len(fs) : listed(fs[k])
                ELSE \E k \in 1..Len(fs) :
                        /\ listed(fs[k])
                        /\ \/ Len(fs[k].Filters) = 0
                           \/ holds(fs[k], e.path)
                           \/ named /\ holds(fs[k], e.name)
        IN  filterResult = IF expected THEN "unpack" ELSE "skip"

\* a dataset was selected by its name through a filter with a name list,
\* next to a filter of another type
C18_Witness ==
    /\ filterpc = "done"
    /\ filterStrings = << <<"model", ":", "m">>,
                          <<"datasets", ",", "code", ":", "m", ",", "p">> >>
    /\ filterEntry = [kind |-> "DataSet", name |-> "m", path |-> "q"]
    /\ filterResult = "unpack"

\* C19: a filter without names, written "types" or "types:", matches every
\* entry of its types whatever the entry's name and path; a filter with a
\* type outside validFilterTypes is refused
C19_EmptyNamesMatchAll ==
    filterpc = "done" /\ Len(filterStrings) = 1 =>
        LET s == filterStrings[1]
            noNames == \/ Len(s) = 1
                       \/ Len(s) = 2 /\ s[2] = ":"
        IN  /\ noNames /\ s[1] = FilterTypeOf(filterEntry.kind)
                => filterResult = "unpack"
            /\ s[1] \notin validFilterTypes => filterResult = "error"

(***************************************************************************)
(* unpackRecursive after the parent step: the Kitfile is loaded or         *)
(* synthesized and written, then the layers of the manifest are unpacked   *)
(* in manifest order.                                                      *)
(***************************************************************************)
NoEntry == [kind |-> "none", name |-> "", path |-> "", info |-> "none"]

\* the artifacts in the store: the kinds of their layers in manifest order
\* (at most one model), the dialect of the media types ("accepted" is the
\* ModelPack dialect with the base spellings ParseModelPackBaseType takes),
\* whether a Kitfile comes with the manifest, whether its entries carry a
\* layerInfo ("mismatch": they do, and the digest of the last layer's entry
\* is not the one of the manifest), and which layer lacks the
\* org.cncf.model.filepath annotation (0: none); lacks names the kind whose
\* last layer has no entry in the Kitfile ("none": every layer has one), as
\* in an artifact put together by another tool; compression is the one
\* the media types of the layers name
Artifacts ==
    LET Kinds == {"Model", "ModelPart", "Code", "Prompt", "DataSet", "Docs"}
        shapes == {ks \in SeqsUpTo(Kinds, MaxLayers) :
                     Cardinality({i \in 1..Len(ks) : ks[i] = "Model"}) <= 1}
    IN  { [kinds |-> ks, dialect |-> "kit", kitfile |-> TRUE, info |-> inf,
           unannotated |-> 0, lacks |-> "none", compression |-> "gzip"] :
            ks \in shapes, inf \in {"match", "none", "mismatch"} }
        \cup
        { [kinds |-> ks, dialect |-> d, kitfile |-> TRUE, info |-> "match",
           unannotated |-> 0, lacks |-> "none", compression |-> "none"] :
            ks \in shapes, d \in {"modelpack", "accepted"} }
        \cup
        { a \in [kinds : {ks \in shapes : \A i \in 1..Len(ks) : ks[i] # "Prompt"},
                 dialect : {"modelpack", "accepted"}, kitfile : {FALSE},
                 info : {"none"}, unannotated : 0..MaxLayers, lacks : {"none"},
                 compression : {"none"}] :
            a.unannotated <= Len(a.kinds) }
        \cup
        { a \in [kinds : shapes, dialect : {"kit"}, kitfile : {TRUE},
                 info : {"none"}, unannotated : {0}, lacks : Kinds,
                 compression : {"gzip"}] :
            \E i \in 1..Len(a.kinds) : a.kinds[i] = a.lacks }
        \cup
        { [kinds |-> ks, dialect |-> "kit", kitfile |-> TRUE, info |-> "match",
           unannotated |-> 0, lacks |-> "none", compression |-> "zstd"] :
            ks \in shapes }

\* the number of layers of the kind of layer i among the first i layers
Ordinal(kinds, i) == Cardinality({j \in 1..i : kinds[j] = kinds[i]})

\* manifest.Layers of an artifact
ManifestLayers(a) ==
    [i \in 1..Len(a.kinds) |->
        LET base == CASE a.kinds[i] = "Model" -> "model"
                      [] a.kinds[i] = "ModelPart" -> "modelpart"
                      [] a.kinds[i] = "DataSet" -> "dataset"
                      [] a.kinds[i] = "Docs" -> "docs"
                      [] OTHER -> "code"
        IN  [mediaType |->
               CASE a.dialect = "kit" ->
                      KitString([baseType |-> base,
                                 compressionType |-> a.compression])
                 [] a.dialect = "modelpack" ->
                      ModelPackString([baseType |-> base, format |-> "tar",
                                       compressionType |-> a.compression])
                 [] OTHER -> <<ModelPackPrefix, ".", base, ".", "v1", ".", "tar">>,
             subtype |-> IF a.kinds[i] = "Prompt" THEN "prompt" ELSE "",
             filepath |-> IF a.dialect = "kit" \/ a.unannotated = i THEN ""
                          ELSE IF Ordinal(a.kinds, i) = 1 THEN "p" ELSE "q"]]

\* the entries of one kind, in the order of their layers; info is the
\* layerInfo of the entry of the last layer
RECURSIVE EntriesOf(_, _, _)
EntriesOf(kinds, kind, info) ==
    IF kinds = <<>> THEN <<>>
    ELSE EntriesOf(SubSeq(kinds, 1, Len(kinds) - 1), kind,
                   IF info = "mismatch" THEN "match" ELSE info)
         \o (IF kinds[Len(kinds)] # kind THEN <<>>
             ELSE << [kind |-> kind, name |-> "m",
                      path |-> IF Ordinal(kinds, Len(kinds)) = 1
                               THEN "p" ELSE "q",
                      info |-> info] >>)

\* the entries of one kind the Kitfile of an artifact holds
KitfileEntries(a, kind) ==
    LET all == EntriesOf(a.kinds, kind, a.info)
    IN  IF a.lacks = kind THEN SubSeq(all, 1, Len(all) - 1) ELSE all

\* the Kitfile packed with an artifact; the parts are those of its model
\* section (config.Model.Parts): without the section there is none
KitfileOf(a) ==
    [Model |-> IF KitfileEntries(a, "Model") = <<>> THEN NoEntry
               ELSE KitfileEntries(a, "Model")[1],
     Parts |-> IF a.lacks = "Model" THEN <<>>
               ELSE KitfileEntries(a, "ModelPart"),
     Code |-> KitfileEntries(a, "Code"),
     Prompts |-> KitfileEntries(a, "Prompt"),
     DataSets |-> KitfileEntries(a, "DataSet"),
     Docs |-> KitfileEntries(a, "Docs")]

EmptyKitfile ==
    [Model |-> NoEntry, Parts |-> <<>>, Code |-> <<>>, Prompts |-> <<>>,
     DataSets |-> <<>>, Docs |-> <<>>]

\* generateKitfileForModelPack(manifest) from layer i on, kf being the
\* Kitfile made of the layers before: err is "" when a Kitfile is returned
RECURSIVE GenerateKitfileForModelPack(_, _, _)
GenerateKitfileForModelPack(layers, i, kf) ==
    IF i > Len(layers) THEN [err |-> "", kf |-> kf]
    ELSE LET desc == layers[i]
             mt == ParseMediaType(desc.mediaType)
             entry(kind) == [kind |-> kind, name |-> "",
                             path |-> desc.filepath, info |-> "none"]
             next(kf2) == GenerateKitfileForModelPack(layers, i + 1, kf2)
             fails(msg) == [err |-> msg, kf |-> EmptyKitfile]
         IN  IF desc.filepath = "" THEN fails("unknown file path for layer")
             ELSE IF mt.err # "" THEN fails(mt.err)
             ELSE CASE mt.baseType = "model" ->
                         next([kf EXCEPT !.Model = entry("Model")])
                    [] mt.baseType = "modelpart" ->
                         next([kf EXCEPT !.Parts = Append(@, entry("ModelPart"))])
                    [] mt.baseType = "code" ->
                         next([kf EXCEPT !.Code = Append(@, entry("Code"))])
                    [] mt.baseType = "dataset" ->
                         next([kf EXCEPT !.DataSets = Append(@, entry("DataSet"))])
                    [] mt.baseType = "docs" ->
                         next([kf EXCEPT !.Docs = Append(@, entry("Docs"))])
                    [] OTHER -> fails("unknown layer type")

InitLayers ==
    /\ lartifact \in Artifacts
    /\ lfilters \in FilterChoices
    /\ lconfig = EmptyKitfile
    /\ lidx = 0
    /\ lcounts = [ModelPart |-> 0, Code |-> 0, Prompt |-> 0, DataSet |-> 0,
                  Docs |-> 0]
    /\ lfetched = <<>>
    /\ lkitfile = "absent"
    /\ lresult = "none"
    /\ lerr = ""

LayersFail(msg) ==
    /\ lresult' = "error"
    /\ lerr' = msg

\* unpackRecursive from util.GetKitfileForManifest to unpackConfig; the
\* ModelPack config of an artifact without Kitfile carries the media type
\* ModelFormatForManifest asks for
LayersConfig ==
    /\ lresult = "none"
    /\ lidx = 0
    /\ IF ~lartifact.kitfile
       THEN LET gen == GenerateKitfileForModelPack(ManifestLayers(lartifact),
                                                   1, EmptyKitfile)
            IN  /\ IF gen.err # ""
                   THEN LayersFail("could not process manifest: " \o gen.err)
                        /\ UNCHANGED <<lconfig, lidx>>
                   ELSE /\ lconfig' = gen.kf
                        /\ lidx' = 1
                        /\ UNCHANGED <<lresult, lerr>>
                /\ UNCHANGED lkitfile
       ELSE IF ~ShouldUnpackKitfile(lfilters)
       THEN /\ lconfig' = KitfileOf(lartifact)
            /\ lidx' = 1
            /\ UNCHANGED <<lkitfile, lresult, lerr>>
       ELSE \E ok \in BOOLEAN :
              IF ok
              THEN /\ lconfig' = KitfileOf(lartifact)
                   /\ lidx' = 1
                   /\ lkitfile' = "written"
                   /\ UNCHANGED <<lresult, lerr>>
              ELSE /\ LayersFail("failed to unpack config")
                   /\ UNCHANGED <<lconfig, lidx, lkitfile>>
    /\ UNCHANGED <<lartifact, lfilters, lcounts, lfetched>>

\* a slip: every layer is paired with the first Kitfile entry of its kind
LayerEntry_First(desc, baseType) ==
    CASE baseType = "model" -> lconfig.Model
      [] baseType = "modelpart" -> lconfig.Parts[1]
      [] baseType = "code" /\ desc.subtype = "prompt" -> lconfig.Prompts[1]
      [] baseType = "code" -> lconfig.Code[1]
      [] baseType = "dataset" -> lconfig.DataSets[1]
      [] baseType = "docs" -> lconfig.Docs[1]

\* the Kitfile entry the loop of unpackRecursive pairs with a layer
LayerEntry(desc, baseType) ==
    CASE baseType = "model" -> lconfig.Model
      [] baseType = "modelpart" -> lconfig.Parts[lcounts.ModelPart + 1]
      [] baseType = "code" /\ desc.subtype = "prompt" ->
           lconfig.Prompts[lcounts.Prompt + 1]
      [] baseType = "code" -> lconfig.Code[lcounts.Code + 1]
      [] baseType = "dataset" -> lconfig.DataSets[lcounts.DataSet + 1]
      [] baseType = "docs" -> lconfig.Docs[lcounts.Docs + 1]

\* the Kitfile holds the entry the loop reads for a layer: config.Model is
\* not nil, the index is within the list (the parts of a nil config.Model
\* are the empty list here: reading them fails alike)
HasLayerEntry(desc, baseType) ==
    CASE baseType = "model" -> lconfig.Model # NoEntry
      [] baseType = "modelpart" -> lcounts.ModelPart + 1 <= Len(lconfig.Parts)
      [] baseType = "code" /\ desc.subtype = "prompt" ->
           lcounts.Prompt + 1 <= Len(lconfig.Prompts)
      [] baseType = "code" -> lcounts.Code + 1 <= Len(lconfig.Code)
      [] baseType = "dataset" -> lcounts.DataSet + 1 <= Len(lconfig.DataSets)
      [] baseType = "docs" -> lcounts.Docs + 1 <= Len(lconfig.Docs)

\* the switch of unpackLayer over the compression: the reader the tar
\* stream is read through, "nil" when no case sets it
DecompressReader(compression) ==
    CASE compression \in {"gzip", "gzip-fastest"} -> "gzip"
      [] compression = "none" -> "plain"
      [] OTHER -> "nil"

\* a slip: the digests are not compared
DigestMismatch_Never(entry) == FALSE

\* layerInfo != nil && layerInfo.Digest != layerDesc.Digest.String()
DigestMismatch(entry) == entry.info = "mismatch"

\* one pass through the loop over manifest.Layers; outcome is what
\* unpackLayer does: the fetch fails, the extraction fails, or it succeeds.
\* Reading an entry the Kitfile does not hold is an index out of range or
\* a nil dereference: the goroutine panics.
LayersUnpackLayer ==
    /\ lresult = "none"
    /\ lidx \in 1..Len(lartifact.kinds)
    /\ LET desc == ManifestLayers(lartifact)[lidx]
           mt == ParseMediaType(desc.mediaType)
           entry == LayerEntry(desc, mt.baseType)
           counted == IF entry.kind = "Model" THEN lcounts
                      ELSE [lcounts EXCEPT ![entry.kind] = @ + 1]
       IN  IF mt.err # "" \/ mt.baseType = "config"
           THEN /\ lidx' = lidx + 1
                /\ UNCHANGED <<lcounts, lfetched, lresult, lerr>>
           ELSE IF ~HasLayerEntry(desc, mt.baseType)
           THEN /\ lresult' = "panic"
                /\ lerr' = ""
                /\ UNCHANGED <<lidx, lcounts, lfetched>>
           ELSE IF ~ShouldUnpackLayer(entry, lfilters)
           THEN /\ lidx' = lidx + 1
                /\ lcounts' = counted
                /\ UNCHANGED <<lfetched, lresult, lerr>>
           ELSE IF DigestMismatch(entry)
           THEN /\ LayersFail("digest in config and manifest do not match")
                /\ lcounts' = counted
                /\ UNCHANGED <<lidx, lfetched>>
           ELSE \E outcome \in {"fetch failed", "extract failed", "ok"} :
                  /\ lcounts' = counted
                  /\ lfetched' = IF outcome = "fetch failed" THEN lfetched
                                 ELSE Append(lfetched, [layer |-> lidx,
                                                        path |-> entry.path])
                  /\ IF outcome = "fetch failed"
                     THEN LayersFail("failed to unpack") /\ UNCHANGED lidx
                     \* cr.Close() is deferred and tar.NewReader(cr) read
                     \* with the nil cr
                     ELSE IF DecompressReader(mt.compressionType) = "nil"
                     THEN lresult' = "panic" /\ lerr' = "" /\ UNCHANGED lidx
                     ELSE IF outcome = "ok"
                     THEN lidx' = lidx + 1 /\ UNCHANGED <<lresult, lerr>>
                     ELSE LayersFail("failed to unpack") /\ UNCHANGED lidx
    /\ UNCHANGED <<lartifact, lfilters, lconfig, lkitfile>>

\* the loop is over: unpackRecursive returns nil
LayersReturn ==
    /\ lresult = "none"
    /\ lidx = Len(lartifact.kinds) + 1
    /\ lresult' = "ok"
    /\ UNCHANGED <<lartifact, lfilters, lconfig, lidx, lcounts, lfetched,
                   lkitfile, lerr>>

NextLayers ==
    \/ LayersConfig /\ UNCHANGED notLayers
    \/ LayersUnpackLayer /\ UNCHANGED notLayers
    \/ LayersReturn /\ UNCHANGED notLayers

\* no artifact is being unpacked
IdleLayers ==
    /\ lartifact = [kinds |-> <<>>, dialect |-> "kit", kitfile |-> TRUE,
                    info |-> "match", unannotated |-> 0,
                    lacks |-> "none", compression |-> "gzip"]
    /\ lfilters = <<>>
    /\ lconfig = EmptyKitfile
    /\ lidx = 0
    /\ lcounts = [ModelPart |-> 0, Code |-> 0, Prompt |-> 0, DataSet |-> 0,
                  Docs |-> 0]
    /\ lfetched = <<>>
    /\ lkitfile = "absent"
    /\ lresult = "none"
    /\ lerr = ""

(***************************************************************************)
(* Properties of the layer loop.                                           *)
(***************************************************************************)
\* the layers of the artifact whose media type parses to one of the base
\* types
LayersOfBase(bases) ==
    {i \in 1..Len(lartifact.kinds) :
        LET mt == ParseMediaType(ManifestLayers(lartifact)[i].mediaType)
        IN  mt.err = "" /\ mt.baseType \in bases}

FetchedLayers == {lfetched[k].layer : k \in 1..Len(lfetched)}

C16_ModelPackWithoutKitfileUnpacks ==
    (~lartifact.kitfile /\ lartifact.unannotated = 0) =>
        /\ lresult = "error" => lerr = "failed to unpack"
        /\ (lresult = "ok" /\ lfilters = <<>>) =>
              /\ Len(lfetched) = Len(lartifact.kinds)
              /\ \A k \in 1..Len(lfetched) :
                    /\ lfetched[k].layer = k
                    /\ lfetched[k].path = ManifestLayers(lartifact)[k].filepath

\* C17: a ModelPack artifact without Kitfile with a layer that lacks the
\* filepath annotation fails with the unknown-layer-path error, and none of
\* its layers is fetched.
C17_MissingAnnotationFails ==
    (~lartifact.kitfile /\ lartifact.unannotated # 0) =>
        /\ lfetched = <<>>
        /\ lidx = 0
        /\ lresult # "ok"
        /\ lresult = "error" =>
              lerr = "could not process manifest: unknown file path for layer"

\* the Kitfile entry of the last layer of the artifact
LastEntry ==
    LET kinds == lartifact.kinds
        of == EntriesOf(kinds, kinds[Len(kinds)], lartifact.info)
    IN  of[Len(of)]

\* C22: when the layerInfo of the entry paired with a layer holds another
\* digest than the layer's descriptor, the blob of that layer is never
\* fetched, an unpack that is to unpack the layer does not succeed, and
\* having come to the layer it fails with the digest error.
C22_DigestMismatchFailsBeforeFetch ==
    (lartifact.info = "mismatch" /\ lartifact.kinds # <<>>) =>
        /\ Len(lartifact.kinds) \notin FetchedLayers
        /\ ShouldUnpackLayer(LastEntry, lfilters) =>
              /\ lresult # "ok"
              /\ (lidx = Len(lartifact.kinds) /\ lresult = "error") =>
                    lerr = "digest in config and manifest do not match"

\* two layers were fetched, the third was refused for its digest
C22_Witness ==
    /\ lartifact.info = "mismatch"
    /\ Len(lartifact.kinds) = 3
    /\ Len(lfetched) = 2
    /\ lidx = 3
    /\ lresult = "error"
    /\ lerr = "digest in config and manifest do not match"

\* the kind the loop takes layer i for: by the base type of its media type
\* and, for code, by the layerSubtype annotation ("none": the media type
\* does not parse, or is a config's)
KindOfLayer(i) ==
    LET desc == ManifestLayers(lartifact)[i]
        mt == ParseMediaType(desc.mediaType)
    IN  IF mt.err # "" THEN "none"
        ELSE CASE mt.baseType = "model" -> "Model"
               [] mt.baseType = "modelpart" -> "ModelPart"
               [] mt.baseType = "code" /\ desc.subtype = "prompt" -> "Prompt"
               [] mt.baseType = "code" -> "Code"
               [] mt.baseType = "dataset" -> "DataSet"
               [] mt.baseType = "docs" -> "Docs"
               [] OTHER -> "none"

\* how many of the layers 1..i the loop takes for the kind
LayersOfKind(kind, i) == Cardinality({j \in 1..i : KindOfLayer(j) = kind})

\* the entries of the Kitfile of one kind
EntriesOfKind(kind) ==
    CASE kind = "ModelPart" -> lconfig.Parts
      [] kind = "Code" -> lconfig.Code
      [] kind = "Prompt" -> lconfig.Prompts
      [] kind = "DataSet" -> lconfig.DataSets
      [] kind = "Docs" -> lconfig.Docs

\* C31: whatever the filters, the index of each kind (model part, code,
\* prompt, dataset, docs) is the number of layers of that kind the loop has
\* been through, unpacked or skipped, layers of other kinds and layers with
\* a config or unparsable media type not counted; so the k-th layer of a
\* kind is unpacked at the path of the k-th Kitfile entry of that kind,
\* code layers being prompts when annotated layerSubtype=prompt.
C31_PerKindIndices ==
    (lidx >= 1 /\ lresult # "panic") =>
       /\ \A kind \in DOMAIN lcounts :
             lcounts[kind] =
                LayersOfKind(kind, IF lresult = "error" THEN lidx ELSE lidx - 1)
       /\ \A k \in 1..Len(lfetched) :
             LET i == lfetched[k].layer
                 kind == KindOfLayer(i)
             IN  /\ kind # "none"
                 /\ kind # "Model" =>
                       lfetched[k].path =
                          EntriesOfKind(kind)[LayersOfKind(kind, i)].path
                 /\ kind = "Model" => lfetched[k].path = lconfig.Model.path

\* two code layers around a prompt layer, the first code layer skipped by
\* the filter: the second was unpacked at the path of the second code entry
C31_Witness ==
    /\ lartifact.kinds = <<"Code", "Prompt", "Code">>
    /\ lartifact.dialect = "kit"
    /\ lfilters = <<FilterConf(<<"code">>, <<"q">>)>>
    /\ lresult = "ok"
    /\ lcounts.Code = 2 /\ lcounts.Prompt = 1
    /\ lfetched = <<[layer |-> 3, path |-> "q"]>>


\* the layers passed so far number more of some kind than the Kitfile has
\* entries of it, the model section counting as the entry of the model layer
MoreLayersThanEntries(i) ==
    \/ \E kind \in DOMAIN lcounts :
          LayersOfKind(kind, i) > Len(EntriesOfKind(kind))
    \/ LayersOfKind("Model", i) > 0 /\ lconfig.Model = NoEntry

\* C38: when the loop comes to a layer of a kind of which the Kitfile has
\* no entry left, or to a model layer while the Kitfile has no model
\* section, the unpack returns an error.
C38_MissingEntryIsAnError ==
    (/\ lidx \in 1..Len(lartifact.kinds)
     /\ MoreLayersThanEntries(lidx)
     /\ lresult # "none")
        => lresult = "error"


\* the layer the loop is at, when its media type parses
LayerMediaType == ParseMediaType(ManifestLayers(lartifact)[lidx].mediaType)

\* C39: the unpack of a layer whose media type parses with a compression
\* other than none, gzip and gzip-fastest, once the layer was fetched,
\* ends with an error.
C39_OtherCompressionIsAnError ==
    (/\ lidx \in 1..Len(lartifact.kinds)
     /\ LayerMediaType.err = ""
     /\ LayerMediaType.compressionType \notin {"none", "gzip", "gzip-fastest"}
     /\ lfetched # <<>>
     /\ lfetched[Len(lfetched)].layer = lidx)
        => lresult = "error"

(***************************************************************************)
(* kit remove --remote (removeRemoteModel, Repository.Untag).  The         *)
(* registry holds manifests by digest and tags pointing to them; what it   *)
(* answers to a DELETE is up to it.                                        *)
(***************************************************************************)
Tags == {"t1", "t2"}
Digests == {"d1", "d2"}

\* util.ReferenceIsDigest(reference), Reference.ValidateReferenceAsDigest()
\* = nil: the empty reference is no digest
ReferenceIsDigest(reference) == reference \in Digests

\* remote.NewRepository(ctx, registry, repository, opts): the Reference of
\* the repository names the registry and the repository, nothing more
NewRepository(reg, repository) ==
    [Registry |-> reg, Repository |-> repository, Reference |-> ""]

\* buildRepositoryManifestsURL(plainHTTP, registryRef, manifestRef), without
\* the scheme and the host
BuildRepositoryManifestsURL(registryRef, manifestRef) ==
    <<"v2", registryRef.Repository, "manifests", manifestRef>>

\* what the registry may answer to a DELETE (0: no answer, the transport
\* failed)
DeleteAnswers ==
    {0, 200, StatusAccepted, StatusBadRequest, StatusNotFound,
     StatusMethodNotAllowed, 500}

\* the error Repository.Untag returns for the answer to its DELETE
UntagResult(status) ==
    CASE status = 0 -> "failed to untag"
      [] status \in {StatusBadRequest, StatusMethodNotAllowed} ->
           "remote registry does not support untagging"
      [] status = StatusNotFound -> "reference not found in remote registry"
      [] status = StatusAccepted -> ""
      [] OTHER -> "unexpected response code from remote registry"

\* the error removeRemoteModel makes of the answer to repository.Delete
DeleteResult(status) ==
    CASE status = StatusAccepted -> ""
      [] status = StatusMethodNotAllowed ->
           "removing models is unsupported by registry"
      [] OTHER -> "failed to remove remote model"

\* a slip: force is not looked at
UntagOnly_IgnoresForce(reference, forceDelete) == ~ReferenceIsDigest(reference)

\* removeRemoteModel untags instead of deleting: a tag, and no force
UntagOnly(reference, forceDelete) ==
    ~ReferenceIsDigest(reference) /\ ~forceDelete

InitRemove ==
    /\ rmRef \in [Registry : {"X"}, Repository : {"repo"},
                  Reference : Tags \cup Digests]
    /\ rmForce \in BOOLEAN
    /\ rmManifests \in SUBSET Digests
    /\ rmTags \in [Tags -> rmManifests \cup {"none"}]
    /\ rmDesc = "none"
    /\ rmRequests = <<>>
    /\ rmResult = "none"
    /\ rmErr = ""
    /\ rmAnswer = -1

RemoveFails(msg) ==
    /\ rmResult' = "error"
    /\ rmErr' = msg

\* the digest repository.Resolve finds for a reference ("none": not found)
Resolve(reference) ==
    IF reference \in Tags THEN rmTags[reference]
    ELSE IF reference \in rmManifests THEN reference ELSE "none"

\* removeRemoteModel up to repository.Resolve, which may also fail for a
\* reason of its own
RemoveResolve ==
    /\ rmResult = "none"
    /\ rmDesc = "none"
    /\ rmRequests' = Append(rmRequests,
          [method |-> "HEAD",
           url |-> BuildRepositoryManifestsURL(
                      NewRepository(rmRef.Registry, rmRef.Repository),
                      rmRef.Reference)])
    /\ \E reached \in BOOLEAN :
         IF ~reached
         THEN RemoveFails("error resolving modelkit") /\ UNCHANGED rmDesc
         ELSE IF Resolve(rmRef.Reference) = "none"
         THEN RemoveFails("model not found") /\ UNCHANGED rmDesc
         ELSE rmDesc' = Resolve(rmRef.Reference) /\ UNCHANGED <<rmResult, rmErr>>
    /\ UNCHANGED <<rmRef, rmForce, rmManifests, rmTags, rmAnswer>>

\* a tag and no force: untagRemoteModel, Repository.Untag(ctx, tag)
RemoveUntag ==
    /\ rmResult = "none"
    /\ rmDesc # "none"
    /\ UntagOnly(rmRef.Reference, rmForce)
    /\ LET r == NewRepository(rmRef.Registry, rmRef.Repository)
       IN  IF ReferenceIsDigest(r.Reference)
           THEN RemoveFails("cannot untag using digest")
                /\ UNCHANGED <<rmRequests, rmManifests, rmTags, rmAnswer>>
           ELSE \E status \in DeleteAnswers :
                  /\ rmRequests' = Append(rmRequests,
                        [method |-> "DELETE",
                         url |-> BuildRepositoryManifestsURL(r, rmRef.Reference)])
                  /\ rmResult' = IF UntagResult(status) = "" THEN "ok" ELSE "error"
                  /\ rmErr' = UntagResult(status)
                  /\ rmAnswer' = status
                  /\ rmTags' = IF status = StatusAccepted
                               THEN [rmTags EXCEPT ![rmRef.Reference] = "none"]
                               ELSE rmTags
                  /\ UNCHANGED rmManifests
    /\ UNCHANGED <<rmRef, rmForce, rmDesc>>

\* a digest, or force: repository.Delete(ctx, desc), which sends
\* DELETE /v2/<repository>/manifests/<desc.Digest>
RemoveDelete ==
    /\ rmResult = "none"
    /\ rmDesc # "none"
    /\ ~UntagOnly(rmRef.Reference, rmForce)
    /\ \E status \in DeleteAnswers :
         /\ rmRequests' = Append(rmRequests,
               [method |-> "DELETE",
                url |-> BuildRepositoryManifestsURL(
                           NewRepository(rmRef.Registry, rmRef.Repository),
                           rmDesc)])
         /\ rmResult' = IF DeleteResult(status) = "" THEN "ok" ELSE "error"
         /\ rmErr' = DeleteResult(status)
         /\ rmAnswer' = status
         /\ rmManifests' = IF status = StatusAccepted
                           THEN rmManifests \ {rmDesc} ELSE rmManifests
         /\ rmTags' = IF status = StatusAccepted
                      THEN [t \in Tags |-> IF rmTags[t] = rmDesc THEN "none"
                                           ELSE rmTags[t]]
                      ELSE rmTags
    /\ UNCHANGED <<rmRef, rmForce, rmDesc>>

NextRemove ==
    \/ RemoveResolve /\ UNCHANGED notRemove
    \/ RemoveUntag /\ UNCHANGED notRemove
    \/ RemoveDelete /\ UNCHANGED notRemove

\* nothing is being removed
IdleRemove ==
    /\ rmRef = [Registry |-> "X", Repository |-> "repo", Reference |-> "t1"]
    /\ rmForce = FALSE
    /\ rmManifests = {}
    /\ rmTags = [t \in Tags |-> "none"]
    /\ rmDesc = "none"
    /\ rmRequests = <<>>
    /\ rmResult = "done"
    /\ rmErr = ""
    /\ rmAnswer = -1

(***************************************************************************)
(* Properties of remove.                                                   *)
(***************************************************************************)
\* the targets of the DELETE requests sent so far, in order
DeleteTargets ==
    LET Del(k) == rmRequests[k].method = "DELETE"
        idx == {k \in 1..Len(rmRequests) : Del(k)}
    IN  [k \in idx |-> rmRequests[k].url]

\* the registry is asked once remove got past Resolve and has returned
RemoveAsked == rmDesc # "none" /\ rmResult \in {"ok", "error"}

\* C13: remove of a tag without force sends DELETE manifests/<tag> once and
\* no DELETE on a digest; remove of a digest, or with force, sends DELETE
\* manifests/<digest of the resolved manifest> once and no DELETE on the
\* tag; when the reference does not resolve no DELETE is sent.  (The last
\* conjunct: the digest is the one the reference stands for in the
\* registry at the time of the DELETE.)
C13_UntagOrDelete ==
    LET targets == DeleteTargets
        wanted == IF rmRef.Reference \in Tags /\ ~rmForce
                  THEN <<"v2", rmRef.Repository, "manifests", rmRef.Reference>>
                  ELSE <<"v2", rmRef.Repository, "manifests", rmDesc>>
    IN  /\ \A k \in DOMAIN targets : targets[k] = wanted
        /\ Cardinality(DOMAIN targets) = IF RemoveAsked THEN 1 ELSE 0
        /\ (rmDesc # "none" /\ rmResult = "none") =>
              rmDesc = Resolve(rmRef.Reference)

\* a tag was removed with force: one DELETE, on the digest the tag pointed to
C13_Witness ==
    /\ rmRef.Reference = "t1"
    /\ rmForce
    /\ rmResult = "ok"
    /\ rmDesc = "d2"
    /\ Len(rmRequests) = 2
    /\ rmRequests[2] = [method |-> "DELETE",
                        url |-> <<"v2", "repo", "manifests", "d2">>]

\* C27: when remove is given a tag and no force and the DELETE on the tag
\* is answered 405 Method Not Allowed, it fails with "removing models is
\* unsupported by registry X".
C27_MethodNotAllowedOnTag ==
    ( /\ rmRef.Reference \in Tags
      /\ ~rmForce
      /\ rmAnswer = StatusMethodNotAllowed ) =>
        /\ rmResult = "error"
        /\ rmErr = "removing models is unsupported by registry"

(***************************************************************************)
(* unpackConfig: the Kitfile is written into the unpack directory.  File   *)
(* contents are sequences of bytes.                                        *)
(***************************************************************************)
\* what may be at <unpackDir>/Kitfile: nothing, a directory (or another
\* path that is no regular file), or a regular file
KitfilePaths ==
    {[kind |-> "absent", bytes |-> <<>>], [kind |-> "dir", bytes |-> <<>>]}
    \cup {[kind |-> "regular", bytes |-> b] : b \in SeqsUpTo({"a", "b"}, MaxKitfileLen)}

\* a slip: the Kitfile is written whatever is there
UnpackConfigOutcome_AlwaysWrites(configBytes, path, overwriteIn, io) ==
    [err |-> "", path |-> [kind |-> "regular", bytes |-> configBytes]]

\* the outcome of unpackConfig(config, unpackDir, overwrite) for the bytes
\* config.MarshalToYAML() gave and the path found; io says whether
\* os.ReadFile and os.WriteFile work ("ok"), fail ("fail"), or the write
\* fails after the file was truncated ("cut")
UnpackConfigOutcome(configBytes, path, overwriteIn, io) ==
    LET fails(msg) == [err |-> msg, path |-> path]
        write == CASE io = "ok" ->
                        [err |-> "", path |-> [kind |-> "regular", bytes |-> configBytes]]
                   [] io = "cut" /\ path.kind = "regular" ->
                        [err |-> "failed to write config file",
                         path |-> [kind |-> "regular", bytes |-> <<>>]]
                   [] OTHER -> fails("failed to write config file")
    IN  IF path.kind = "absent" THEN write
        ELSE IF path.kind # "regular"
        THEN fails("failed to unpack config: path exists and is not a regular file")
        ELSE IF overwriteIn THEN write
        ELSE IF Len(path.bytes) # Len(configBytes)
        THEN fails("failed to unpack config: path already exists")
        ELSE IF io # "ok" THEN fails("failed to read existing Kitfile")
        ELSE IF configBytes = path.bytes THEN [err |-> "", path |-> path]
        ELSE fails("failed to unpack: Kitfile exists and does not match model's Kitfile")

InitConfig ==
    /\ kfBytes \in SeqsUpTo({"a", "b"}, MaxKitfileLen) \ {<<>>}
    /\ kfOverwrite \in BOOLEAN
    /\ kfPath \in KitfilePaths
    /\ kfBefore = kfPath
    /\ kfResult = "none"
    /\ kfErr = ""

\* unpackConfig(config, opts.UnpackDir, opts.Overwrite)
UnpackConfig ==
    /\ kfResult = "none"
    /\ \E io \in {"ok", "fail", "cut"} :
         LET out == UnpackConfigOutcome(kfBytes, kfPath, kfOverwrite, io)
         IN  /\ kfPath' = out.path
             /\ kfErr' = out.err
             /\ kfResult' = IF out.err = "" THEN "ok" ELSE "error"
    /\ UNCHANGED <<kfBytes, kfOverwrite, kfBefore>>

NextConfig ==
    \/ UnpackConfig /\ UNCHANGED notConfig

\* no Kitfile is being written
IdleConfig ==
    /\ kfBytes = <<>>
    /\ kfOverwrite = FALSE
    /\ kfPath = [kind |-> "absent", bytes |-> <<>>]
    /\ kfBefore = [kind |-> "absent", bytes |-> <<>>]
    /\ kfResult = "done"
    /\ kfErr = ""

(***************************************************************************)
(* Properties of unpackConfig.                                             *)
(***************************************************************************)
\* os.ReadFile or os.WriteFile failed
ConfigIOFailed ==
    kfErr \in {"failed to read existing Kitfile", "failed to write config file"}

\* unpackConfig has returned and the file system did what it was asked
ConfigReturned == kfResult \in {"ok", "error"} /\ ~ConfigIOFailed

HoldsKitfile == kfPath = [kind |-> "regular", bytes |-> kfBytes]

\* a regular file with the bytes of the Kitfile is kept and unpack goes on;
\* a regular file with other bytes and overwrite = false: unpack fails and
\* the file is kept
C20_RegularFileCases ==
    /\ (kfBefore.kind = "regular" /\ kfBefore.bytes = kfBytes) =>
          /\ kfResult = "ok"
          /\ kfPath = kfBefore
    /\ (kfBefore.kind = "regular" /\ kfBefore.bytes # kfBytes /\ ~kfOverwrite) =>
          /\ kfResult = "error"
          /\ kfPath = kfBefore

\* C20 as stated: ... otherwise (file absent, or overwrite = true) the file
\* ends up holding the Kitfile.
C20_AsStated ==
    ConfigReturned =>
       /\ C20_RegularFileCases
       /\ (kfBefore.kind = "absent" \/ kfOverwrite) => (kfResult = "ok" /\ HoldsKitfile)

\* C20: when the file system works, a regular file with the bytes of the
\* Kitfile is kept and unpack goes on; a regular file with other bytes and
\* overwrite = false makes unpack fail and is kept; a path that is no
\* regular file makes unpack fail, whatever overwrite, and is kept; in the
\* cases left (nothing there, or a regular file and overwrite = true) the
\* file ends up holding the Kitfile.  With overwrite = false nothing is
\* ever written over a file, working file system or not.
C20_UnpackConfig ==
    /\ ConfigReturned =>
         /\ C20_RegularFileCases
         /\ kfBefore.kind = "dir" => (kfResult = "error" /\ kfPath = kfBefore)
         /\ (kfBefore.kind = "absent" \/ (kfBefore.kind = "regular" /\ kfOverwrite))
               => (kfResult = "ok" /\ HoldsKitfile)
    /\ (~kfOverwrite /\ kfBefore.kind # "absent") => kfPath = kfBefore

\* a regular file with other bytes was overwritten
C20_Witness ==
    /\ kfOverwrite
    /\ kfBefore.kind = "regular"
    /\ kfBefore.bytes # kfBytes
    /\ Len(kfBefore.bytes) = Len(kfBytes)
    /\ kfResult = "ok"
    /\ HoldsKitfile

(***************************************************************************)
(* Repository.Push of a blob up to the start of the upload:                *)
(* initiateUploadSession and the HTTP client its POST goes through.        *)
(***************************************************************************)

\* the retries the transport's policy allows (retry.DefaultPolicy)
MaxTransportRetry == 2

\* r.Client: the client built by network.DefaultClient, none (client() then
\* returns auth.DefaultClient), or a client whose transport does not retry
PushClients == {"DefaultClient", "nil", "plain"}

\* Transport: retry.NewTransport(transport); auth.DefaultClient sends
\* through the retrying client as well
HasRetryTransport(client) == client \in {"DefaultClient", "nil"}

\* host and port of the upload URL, and of the Location a 202 may carry
OrigHostname == "reg"

OrigPorts == {"443", "5000"}

PostLocations ==
    { [host |-> "reg", port |-> ""],
      [host |-> "reg", port |-> "443"],
      [host |-> "cdn", port |-> ""] }

NoSession == [host |-> "", port |-> ""]

\* what one round trip of the POST may come back with
PostOutcomes ==
    { Outcome(e, 0, NoSession, <<>>) : e \in ErrKinds \ {"none"} }
    \cup { Outcome("none", st, NoSession, <<>>) : st \in Statuses \ {StatusAccepted} }
    \cup { Outcome("none", StatusAccepted, loc, <<>>) :
             loc \in PostLocations \cup {NoSession} }

\* the workaround for a Location without port: the port of the request is
\* put back when it is 443 and the host is the same
SessionLocation(loc, origPort) ==
    IF origPort = "443" /\ loc.host = OrigHostname /\ loc.port = ""
    THEN [loc EXCEPT !.port = origPort]
    ELSE loc

InitPush ==
    /\ pushClient \in PushClients
    /\ pushOrigPort \in OrigPorts
    /\ postLog = <<>>
    /\ pushpc = "post"
    /\ sessionURL = NoSession
    /\ pushResult = "none"
    /\ pushErr = ""

PushFails(msg) ==
    /\ pushpc' = "done"
    /\ pushResult' = "error"
    /\ pushErr' = msg
    /\ sessionURL' = NoSession

\* the transport sends the request again: it has no body to rewind, so the
\* policy alone decides
PushRetries(client, att, o) ==
    /\ HasRetryTransport(client)
    /\ RetryPolicyRetry(att, MaxTransportRetry, o) = "delay"

\* r.client().Do(req) of initiateUploadSession: one round trip of the POST,
\* then either the transport's wait or the handling of the response
PushPost ==
    /\ pushpc = "post"
    /\ \E o \in PostOutcomes :
         /\ postLog' = Append(postLog, o)
         /\ IF PushRetries(pushClient, Len(postLog), o)
            THEN /\ pushpc' = "wait"
                 /\ UNCHANGED <<sessionURL, pushResult, pushErr>>
            ELSE IF o.err # "none"
            THEN PushFails("failed to initiate upload")
            ELSE IF o.status # StatusAccepted
            THEN PushFails("remote error")
            ELSE IF o.location = NoSession
            THEN PushFails("registry did not respond with upload location")
            ELSE /\ pushpc' = "done"
                 /\ pushResult' = "ok"
                 /\ pushErr' = ""
                 /\ sessionURL' = SessionLocation(o.location, pushOrigPort)
    /\ UNCHANGED <<pushClient, pushOrigPort>>

\* the transport's timer fires: the same request goes out again
PushTransportTimer ==
    /\ pushpc = "wait"
    /\ pushpc' = "post"
    /\ UNCHANGED <<pushClient, pushOrigPort, postLog, sessionURL, pushResult, pushErr>>

\* the context is cancelled during the transport's wait: Do returns ctx.Err()
PushTransportCancelled ==
    /\ pushpc = "wait"
    /\ PushFails("failed to initiate upload")
    /\ UNCHANGED <<pushClient, pushOrigPort, postLog>>

NextPush ==
    \/ PushPost /\ UNCHANGED notPush
    \/ PushTransportTimer /\ UNCHANGED notPush
    \/ PushTransportCancelled /\ UNCHANGED notPush

\* no blob is being pushed
IdlePush ==
    /\ pushClient = "plain"
    /\ pushOrigPort = "443"
    /\ postLog = <<>>
    /\ pushpc = "done"
    /\ sessionURL = NoSession
    /\ pushResult = "none"
    /\ pushErr = ""

\* C26: during a blob push the POST that opens the upload session goes out
\* at most once, whatever the outcome and whichever client is used.
C26_PostSentAtMostOnce == Len(postLog) <= 1

(***************************************************************************)
(* KitFile.collectLicenses.  A license string is the sequence of its       *)
(* bytes; the empty sequence is a license field that is not set.           *)
(***************************************************************************)

\* the longest list of parts, of datasets and of code entries
MaxLicenseEntries == 1

\* the license strings a field may hold, "" among them
LicenseStrings == { <<>>, <<1>>, <<1, 2>>, <<2>> }

\* a < b for strings, byte by byte
RECURSIVE StringLess(_, _)
StringLess(a, b) ==
    IF b = <<>> THEN FALSE
    ELSE IF a = <<>> THEN TRUE
    ELSE IF a[1] # b[1] THEN a[1] < b[1]
    ELSE StringLess(Tail(a), Tail(b))

\* s with the string l put at its place, s being sorted
RECURSIVE InsertSorted(_, _)
InsertSorted(s, l) ==
    IF s = <<>> THEN <<l>>
    ELSE IF StringLess(l, s[1]) THEN <<l>> \o s
    ELSE <<s[1]>> \o InsertSorted(Tail(s), l)

\* the strings of s in ascending order
RECURSIVE SortStrings(_)
SortStrings(s) ==
    IF s = <<>> THEN <<>>
    ELSE InsertSorted(SortStrings(Tail(s)), s[1])

\* s without the elements that repeat their predecessor
RECURSIVE Compact(_)
Compact(s) ==
    IF Len(s) <= 1 THEN s
    ELSE IF s[1] = s[2] THEN Compact(Tail(s))
    ELSE <<s[1]>> \o Compact(Tail(s))

\* the license fields of a list of entries that are set, in order
RECURSIVE LicensesOf(_)
LicensesOf(list) ==
    IF list = <<>> THEN <<>>
    ELSE (IF list[1] = <<>> THEN <<>> ELSE <<list[1]>>) \o LicensesOf(Tail(list))

\* the Kitfiles, reduced to their license fields
LicenseKitfiles ==
    [ Package : LicenseStrings,
      Model : {[present |-> FALSE, License |-> <<>>, Parts |-> <<>>]}
              \cup [present : {TRUE}, License : LicenseStrings,
                    Parts : SeqsUpTo(LicenseStrings, MaxLicenseEntries)],
      DataSets : SeqsUpTo(LicenseStrings, MaxLicenseEntries),
      Code : SeqsUpTo(LicenseStrings, MaxLicenseEntries) ]

\* a slip: the licenses are returned in the order of declaration
CollectLicenses_Unsorted(kf) ==
    LET licenses == LicensesOf(<<kf.Package>>)
                    \o (IF kf.Model.present
                        THEN LicensesOf(<<kf.Model.License>>) \o LicensesOf(kf.Model.Parts)
                        ELSE <<>>)
                    \o LicensesOf(kf.DataSets) \o LicensesOf(kf.Code)
    IN  [isNil |-> licenses = <<>>, items |-> Compact(licenses)]

\* kf.collectLicenses(): the licenses that are set, of the package, the
\* model, its parts, the datasets and the code, sorted and without
\* repetition; a nil slice when none is set
CollectLicenses(kf) ==
    LET licenses == LicensesOf(<<kf.Package>>)
                    \o (IF kf.Model.present
                        THEN LicensesOf(<<kf.Model.License>>) \o LicensesOf(kf.Model.Parts)
                        ELSE <<>>)
                    \o LicensesOf(kf.DataSets) \o LicensesOf(kf.Code)
    IN  [isNil |-> licenses = <<>>, items |-> Compact(SortStrings(licenses))]

NoLicenses == [isNil |-> TRUE, items |-> <<>>]

InitLicenses ==
    /\ licKitfile \in LicenseKitfiles
    /\ licResult = NoLicenses
    /\ licpc = "collect"

CollectLicensesCall ==
    /\ licpc = "collect"
    /\ licResult' = CollectLicenses(licKitfile)
    /\ licpc' = "done"
    /\ UNCHANGED licKitfile

NextLicenses ==
    \/ CollectLicensesCall /\ UNCHANGED notLicenses

\* no licenses are being collected
IdleLicenses ==
    /\ licKitfile = [Package |-> <<>>,
                     Model |-> [present |-> FALSE, License |-> <<>>, Parts |-> <<>>],
                     DataSets |-> <<>>, Code |-> <<>>]
    /\ licResult = NoLicenses
    /\ licpc = "done"

\* every license string that is set somewhere in the Kitfile
LicenseSet(kf) ==
    ( {kf.Package, kf.Model.License}
      \cup {kf.Model.Parts[i] : i \in DOMAIN kf.Model.Parts}
      \cup {kf.DataSets[i] : i \in DOMAIN kf.DataSets}
      \cup {kf.Code[i] : i \in DOMAIN kf.Code} ) \ {<<>>}

\* C28: collectLicenses returns the license strings of the package, the
\* model, its parts, the datasets and the code, each once and in ascending
\* order (so the result is fixed by the set of licenses and not by where
\* they are declared), and nil when no license is set.
C28_CollectLicenses ==
    licpc = "done" =>
      /\ {licResult.items[i] : i \in DOMAIN licResult.items} = LicenseSet(licKitfile)
      /\ \A i \in 1..(Len(licResult.items) - 1) :
            StringLess(licResult.items[i], licResult.items[i + 1])
      /\ licResult.isNil = (LicenseSet(licKitfile) = {})

\* licenses declared in descending order, one of them twice
C28_Witness ==
    /\ licpc = "done"
    /\ licKitfile.Package = <<2>>
    /\ licKitfile.Model.License = <<1, 2>>
    /\ licKitfile.DataSets = << <<1>> >>
    /\ licKitfile.Code = << <<2>> >>
    /\ licResult = [isNil |-> FALSE, items |-> << <<1>>, <<1, 2>>, <<2>> >>]

(***************************************************************************)
(* Repository.Untag called by itself, on any repository and with any       *)
(* reference.                                                              *)
(***************************************************************************)
InitUntag ==
    /\ utRepo \in [Registry : {"X"}, Repository : {"repo"},
                   Reference : {""} \cup Tags \cup Digests]
    /\ utReference \in Tags \cup Digests
    /\ utRequests = <<>>
    /\ utAnswer = -1
    /\ utResult = "none"
    /\ utErr = ""

\* func (r *Repository) Untag(ctx, reference): the digest test is made on
\* the Reference of the repository, the URL is built with the argument
Untag ==
    /\ utResult = "none"
    /\ IF ReferenceIsDigest(utRepo.Reference)
       THEN /\ utResult' = "error"
            /\ utErr' = "cannot untag using digest"
            /\ UNCHANGED <<utRequests, utAnswer>>
       ELSE \E status \in DeleteAnswers :
              /\ utRequests' = Append(utRequests,
                    [method |-> "DELETE",
                     url |-> BuildRepositoryManifestsURL(utRepo, utReference)])
              /\ utAnswer' = status
              /\ utResult' = IF UntagResult(status) = "" THEN "ok" ELSE "error"
              /\ utErr' = UntagResult(status)
    /\ UNCHANGED <<utRepo, utReference>>

NextUntag ==
    \/ Untag /\ UNCHANGED notUntag

\* Untag is not being called
IdleUntag ==
    /\ utRepo = [Registry |-> "X", Repository |-> "repo", Reference |-> ""]
    /\ utReference = "t1"
    /\ utRequests = <<>>
    /\ utAnswer = -1
    /\ utResult = "done"
    /\ utErr = ""

\* C40: Untag sends no DELETE for a digest: asked to untag a reference
\* that is a digest it returns "cannot untag using digest" without a
\* request; and it returns nil only when the answer to its DELETE is 202.
C40_NoDeleteOnDigest ==
    /\ (ReferenceIsDigest(utReference) /\ utResult \in {"ok", "error"})
          => /\ utResult = "error"
             /\ utErr = "cannot untag using digest"
             /\ utRequests = <<>>
    /\ utResult = "ok" => utAnswer = StatusAccepted

(***************************************************************************)
(* The specifications.                                                     *)
(***************************************************************************)
\* an upload runs while nothing is unpacked
UploadOnly ==
    /\ InitUpload
    /\ IdleUnpack
    /\ IdleExtract
    /\ IdleMediaType
    /\ IdleFilter
    /\ IdleLayers
    /\ IdleRemove
    /\ IdleConfig
    /\ IdlePush
    /\ IdleLicenses
    /\ IdleUntag

SpecUpload == UploadOnly /\ [][NextUpload]_vars

\* a call of UnpackModelKit runs, seen as far as its recursion
UnpackOnly ==
    /\ InitUnpack
    /\ IdleUpload
    /\ IdleExtract
    /\ IdleMediaType
    /\ IdleFilter
    /\ IdleLayers
    /\ IdleRemove
    /\ IdleConfig
    /\ IdlePush
    /\ IdleLicenses
    /\ IdleUntag

SpecUnpack == UnpackOnly /\ [][NextUnpack]_vars

\* UnpackModelKit runs in one goroutine, which takes its next step
SpecUnpackFair == SpecUnpack /\ WF_vars(NextUnpack)

\* one layer is extracted
ExtractOnly ==
    /\ InitExtract
    /\ IdleUpload
    /\ IdleUnpack
    /\ IdleMediaType
    /\ IdleFilter
    /\ IdleLayers
    /\ IdleRemove
    /\ IdleConfig
    /\ IdlePush
    /\ IdleLicenses
    /\ IdleUntag

SpecExtract == ExtractOnly /\ [][NextExtract]_vars

\* one media-type string is parsed and written back
MediaTypeOnly ==
    /\ InitMediaType
    /\ IdleUpload
    /\ IdleUnpack
    /\ IdleExtract
    /\ IdleFilter
    /\ IdleLayers
    /\ IdleRemove
    /\ IdleConfig
    /\ IdlePush
    /\ IdleLicenses
    /\ IdleUntag

SpecMediaType == MediaTypeOnly /\ [][NextMediaType]_vars

\* filters are parsed and asked about one Kitfile entry
FilterOnly ==
    /\ InitFilter
    /\ IdleUpload
    /\ IdleUnpack
    /\ IdleExtract
    /\ IdleMediaType
    /\ IdleLayers
    /\ IdleRemove
    /\ IdleConfig
    /\ IdlePush
    /\ IdleLicenses
    /\ IdleUntag

SpecFilter == FilterOnly /\ [][NextFilter]_vars

\* the Kitfile and the layers of one artifact are unpacked
LayersOnly ==
    /\ InitLayers
    /\ IdleUpload
    /\ IdleUnpack
    /\ IdleExtract
    /\ IdleMediaType
    /\ IdleFilter
    /\ IdleRemove
    /\ IdleConfig
    /\ IdlePush
    /\ IdleLicenses
    /\ IdleUntag

SpecLayers == LayersOnly /\ [][NextLayers]_vars

\* one remote ModelKit is removed
RemoveOnly ==
    /\ InitRemove
    /\ IdleUpload
    /\ IdleUnpack
    /\ IdleExtract
    /\ IdleMediaType
    /\ IdleFilter
    /\ IdleLayers
    /\ IdleConfig
    /\ IdlePush
    /\ IdleLicenses
    /\ IdleUntag

SpecRemove == RemoveOnly /\ [][NextRemove]_vars

\* one Kitfile is written
ConfigOnly ==
    /\ InitConfig
    /\ IdleUpload
    /\ IdleUnpack
    /\ IdleExtract
    /\ IdleMediaType
    /\ IdleFilter
    /\ IdleLayers
    /\ IdleRemove
    /\ IdlePush
    /\ IdleLicenses
    /\ IdleUntag

SpecConfig == ConfigOnly /\ [][NextConfig]_vars

\* a blob push up to the start of the upload, everything else at rest
PushOnly ==
    /\ InitPush
    /\ IdleUpload
    /\ IdleUnpack
    /\ IdleExtract
    /\ IdleMediaType
    /\ IdleFilter
    /\ IdleLayers
    /\ IdleRemove
    /\ IdleConfig
    /\ IdleLicenses
    /\ IdleUntag

SpecPush == PushOnly /\ [][NextPush]_vars

\* the licenses of one Kitfile are collected, everything else at rest
LicensesOnly ==
    /\ InitLicenses
    /\ IdleUpload
    /\ IdleUnpack
    /\ IdleExtract
    /\ IdleMediaType
    /\ IdleFilter
    /\ IdleLayers
    /\ IdleRemove
    /\ IdleConfig
    /\ IdlePush
    /\ IdleUntag

SpecLicenses == LicensesOnly /\ [][NextLicenses]_vars

\* Untag is called once, everything else at rest
UntagCallOnly ==
    /\ InitUntag
    /\ IdleUpload
    /\ IdleUnpack
    /\ IdleExtract
    /\ IdleMediaType
    /\ IdleFilter
    /\ IdleLayers
    /\ IdleRemove
    /\ IdleConfig
    /\ IdlePush
    /\ IdleLicenses

SpecUntag == UntagCallOnly /\ [][NextUntag]_vars

====
